---- MODULE Spec2Model ----
(***************************************************************************)
(* Model of the document checks of lawyer_assistant_demo:                  *)
(*   mcp_server/docx_parser.py  heading classifier, heading tree, spans    *)
(*   mcp_server/checks.py       whitespace, enumeration, reference checks  *)
(*                                                                         *)
(* A text is a sequence of characters; a character is a one-character      *)
(* string, or a short name for a character outside ASCII:                  *)
(*   "C^" "c^"  C/c with caron      "A'" "a'"  A/a with acute              *)
(*   "R^" "r^"  R/r with caron      "I'" "i'"  I/i with acute              *)
(*   "SECT"     the section sign    "NBSP"     the no-break space          *)
(* Paragraph indices are 0-based as in the source; sequences are 1-based,  *)
(* so paragraph index k is paragraphs[k + 1].                              *)
(***************************************************************************)
EXTENDS Integers, Sequences, FiniteSets, TLC

VARIABLES
    paragraphs,       \* doc.paragraphs of the file under analysis
    pc,               \* position of the running entry point
    idx,              \* loop index of the running entry point (0-based)
    headings,         \* load_document_structure: the flat heading list
    nodes,            \* _build_heading_tree: the node objects, by identity
    root,             \* _build_heading_tree: root (node identities)
    stack,            \* _build_heading_tree: stack (node identities)
    issues,           \* check_whitespace: issues / check_enumerations: result_issues
    prev_blank,       \* check_whitespace: prev_blank
    current_run,      \* check_enumerations: current_run
    current_section,  \* check_enumerations: current_section
    flush_log,        \* check_enumerations: the calls of flush(), in order
    result,           \* the value the entry point returned
    fs,               \* the file system: the content at each path
    call,             \* the entry point being served, with its arguments
    earlier           \* one earlier analysis call, kept with its result

vars == <<paragraphs, pc, idx, headings, nodes, root, stack, issues,
          prev_blank, current_run, current_section, flush_log, result,
          fs, call, earlier>>

(***************************************************************************)
(* Python values                                                           *)
(***************************************************************************)
\* None where a text is expected (no character is named "<None>")
None == <<"<None>">>

\* None where a heading level is expected
NoLevel == 0 - 1

NoResult == [kind |-> "none"]

(***************************************************************************)
(* Characters                                                              *)
(***************************************************************************)
UpperChars ==
    <<"A", "B", "C", "D", "E", "F", "G", "H", "I", "J", "K", "L", "M",
      "N", "O", "P", "Q", "R", "S", "T", "U", "V", "W", "X", "Y", "Z",
      "C^", "A'", "R^", "I'">>

LowerChars ==
    <<"a", "b", "c", "d", "e", "f", "g", "h", "i", "j", "k", "l", "m",
      "n", "o", "p", "q", "r", "s", "t", "u", "v", "w", "x", "y", "z",
      "c^", "a'", "r^", "i'">>

AsciiLetters ==
    {UpperChars[k] : k \in 1..26} \cup {LowerChars[k] : k \in 1..26}

Letters ==
    {UpperChars[k] : k \in 1..Len(UpperChars)}
        \cup {LowerChars[k] : k \in 1..Len(LowerChars)}

Digits == {"0", "1", "2", "3", "4", "5", "6", "7", "8", "9"}

\* str.isspace(), and \s of a str pattern
WhitespaceChars == {" ", "\t", "\n", "NBSP"}

\* \w of a str pattern
WordChars == Letters \cup Digits \cup {"_"}

\* str.lower() of one character
LowerChar(c) ==
    IF \E k \in 1..Len(UpperChars) : UpperChars[k] = c
    THEN LowerChars[CHOOSE k \in 1..Len(UpperChars) : UpperChars[k] = c]
    ELSE c

\* str.upper() of one character
UpperChar(c) ==
    IF \E k \in 1..Len(LowerChars) : LowerChars[k] = c
    THEN UpperChars[CHOOSE k \in 1..Len(LowerChars) : LowerChars[k] = c]
    ELSE c

DigitValue(c) ==
    CASE c = "0" -> 0 [] c = "1" -> 1 [] c = "2" -> 2 [] c = "3" -> 3
      [] c = "4" -> 4 [] c = "5" -> 5 [] c = "6" -> 6 [] c = "7" -> 7
      [] c = "8" -> 8 [] c = "9" -> 9

(***************************************************************************)
(* str methods                                                             *)
(***************************************************************************)
\* text[lo:hi] with 0-based lo, hi already clipped to 0..len
Slice(text, lo, hi) == SubSeq(text, lo + 1, hi)

Upper(text) == [k \in 1..Len(text) |-> UpperChar(text[k])]

Lower(text) == [k \in 1..Len(text) |-> LowerChar(text[k])]

\* str.lstrip()
LStrip(text) ==
    LET blankTo == {k \in 0..Len(text) :
                        \A j \in 1..k : text[j] \in WhitespaceChars}
        n == CHOOSE k \in blankTo : \A m \in blankTo : m <= k
    IN  SubSeq(text, n + 1, Len(text))

\* str.rstrip()
RStrip(text) ==
    LET keep == {k \in 0..Len(text) :
                        \A j \in (k + 1)..Len(text) : text[j] \in WhitespaceChars}
        n == CHOOSE k \in keep : \A m \in keep : k <= m
    IN  SubSeq(text, 1, n)

\* str.strip()
Strip(text) == LStrip(RStrip(text))

\* str.startswith(prefix)
StartsWith(text, prefix) ==
    /\ Len(prefix) <= Len(text)
    /\ SubSeq(text, 1, Len(prefix)) = prefix

\* str.isdigit()
IsDigitStr(text) ==
    /\ Len(text) > 0
    /\ \A k \in 1..Len(text) : text[k] \in Digits

\* int(text) of a digit string
RECURSIVE ToInt(_)
ToInt(text) ==
    IF text = <<>> THEN 0
    ELSE 10 * ToInt(SubSeq(text, 1, Len(text) - 1)) + DigitValue(text[Len(text)])

\* str.split(): the maximal runs of non-whitespace characters
RECURSIVE SplitWs(_)
SplitWs(text) ==
    LET t == LStrip(text)
        wordTo == {k \in 0..Len(t) : \A j \in 1..k : t[j] \notin WhitespaceChars}
        n == CHOOSE k \in wordTo : \A m \in wordTo : m <= k
    IN  IF t = <<>> THEN <<>>
        ELSE <<SubSeq(t, 1, n)>> \o SplitWs(SubSeq(t, n + 1, Len(t)))

\* str.split("."): the segments between the dots
RECURSIVE SplitDot(_)
SplitDot(text) ==
    LET dots == {k \in 1..Len(text) : text[k] = "."}
        d == CHOOSE k \in dots : \A m \in dots : k <= m
    IN  IF dots = {} THEN <<text>>
        ELSE <<SubSeq(text, 1, d - 1)>> \o SplitDot(SubSeq(text, d + 1, Len(text)))

\* "".join(parts)
RECURSIVE Join(_)
Join(parts) ==
    IF parts = <<>> THEN <<>> ELSE Head(parts) \o Join(Tail(parts))

\* [f(x) for x in s if keep(x)] for sequences: the kept positions, in order
RECURSIVE SelectIdx(_, _)
SelectIdx(n, keep) ==
    IF n = 0 THEN <<>>
    ELSE IF n \in keep THEN Append(SelectIdx(n - 1, keep), n)
         ELSE SelectIdx(n - 1, keep)

(***************************************************************************)
(* re: patterns as syntax trees, matched by backtracking in re's order     *)
(***************************************************************************)
\* one character of a set: a literal, [..], \d, \w, \s
RChar(set) == [tag |-> "char", set |-> set]

\* the parts one after the other
RCat(parts) == [tag |-> "cat", parts |-> parts]

\* r{min,max}, greedy; Unbounded for r* and r+
RRep(r, min, max) == [tag |-> "rep", r |-> r, min |-> min, max |-> max]

Unbounded == 0 - 1

\* ( r ): the capturing group 1
RGroup(r) == [tag |-> "group", r |-> r]

\* \b
RWordB == [tag |-> "wordb"]

\* ^
RBol == [tag |-> "bol"]

\* a literal string
RLit(text) == RCat([k \in 1..Len(text) |-> RChar({text[k]})])

NoGroup == <<0 - 1, 0 - 1>>

\* whether character c matches a set, under re.IGNORECASE when icase
CharMatches(c, set, icase) ==
    \/ c \in set
    \/ icase /\ (LowerChar(c) \in set \/ UpperChar(c) \in set)

\* whether \b matches at offset pos
AtWordBoundary(text, pos) ==
    LET before == pos >= 1 /\ text[pos] \in WordChars
        after == pos < Len(text) /\ text[pos + 1] \in WordChars
    IN  before # after

\* the group of the later part wins when it captured
MergeGroup(ends, g) ==
    [k \in 1..Len(ends) |->
        [end |-> ends[k].end,
         g |-> IF ends[k].g = NoGroup THEN g ELSE ends[k].g]]

RECURSIVE Ends(_, _, _, _)
RECURSIVE CatEnds(_, _, _, _)
RECURSIVE CatOver(_, _, _, _, _)
RECURSIVE RepEnds(_, _, _, _, _)
RECURSIVE RepOver(_, _, _, _, _, _, _)

\* The ways pattern re matches text from offset pos, as [end, g] (g: the
\* span of group 1), in the order backtracking tries them
Ends(re, text, pos, icase) ==
    CASE re.tag = "char" ->
            IF pos < Len(text) /\ CharMatches(text[pos + 1], re.set, icase)
            THEN <<[end |-> pos + 1, g |-> NoGroup]>>
            ELSE <<>>
      [] re.tag = "wordb" ->
            IF AtWordBoundary(text, pos)
            THEN <<[end |-> pos, g |-> NoGroup]>>
            ELSE <<>>
      [] re.tag = "bol" ->
            IF pos = 0 THEN <<[end |-> pos, g |-> NoGroup]>> ELSE <<>>
      [] re.tag = "cat" -> CatEnds(re.parts, text, pos, icase)
      [] re.tag = "rep" -> RepEnds(re, text, pos, icase, 0)
      [] re.tag = "group" ->
            LET inner == Ends(re.r, text, pos, icase)
            IN  [k \in 1..Len(inner) |->
                    [end |-> inner[k].end, g |-> <<pos, inner[k].end>>]]

CatEnds(parts, text, pos, icase) ==
    IF parts = <<>> THEN <<[end |-> pos, g |-> NoGroup]>>
    ELSE CatOver(Ends(Head(parts), text, pos, icase), 1, Tail(parts), text, icase)

CatOver(first, k, rest, text, icase) ==
    IF k > Len(first) THEN <<>>
    ELSE MergeGroup(CatEnds(rest, text, first[k].end, icase), first[k].g)
         \o CatOver(first, k + 1, rest, text, icase)

\* greedy: one more repetition is tried before stopping here
RepEnds(re, text, pos, icase, count) ==
    LET more == IF re.max = Unbounded \/ count < re.max
                THEN RepOver(Ends(re.r, text, pos, icase), 1, re, text, pos,
                             icase, count)
                ELSE <<>>
        here == IF count >= re.min
                THEN <<[end |-> pos, g |-> NoGroup]>>
                ELSE <<>>
    IN  more \o here

RepOver(once, k, re, text, pos, icase, count) ==
    IF k > Len(once) THEN <<>>
    ELSE (IF once[k].end > pos
          THEN RepEnds(re, text, once[k].end, icase, count + 1)
          ELSE <<>>)
         \o RepOver(once, k + 1, re, text, pos, icase, count)

NoMatch == [start |-> 0 - 1, end |-> 0 - 1, g |-> NoGroup]

\* Pattern.match(text): the match at offset 0, or NoMatch
ReMatch(re, text, icase) ==
    LET ends == Ends(re, text, 0, icase)
    IN  IF ends = <<>> THEN NoMatch
        ELSE [start |-> 0, end |-> ends[1].end, g |-> ends[1].g]

\* Pattern.search(text, pos): the leftmost match from offset pos on
RECURSIVE ReSearch(_, _, _, _)
ReSearch(re, text, pos, icase) ==
    IF pos > Len(text) THEN NoMatch
    ELSE LET ends == Ends(re, text, pos, icase)
         IN  IF ends # <<>>
             THEN [start |-> pos, end |-> ends[1].end, g |-> ends[1].g]
             ELSE ReSearch(re, text, pos + 1, icase)

\* Pattern.finditer(text): the non-overlapping matches, left to right
RECURSIVE FindIterFrom(_, _, _, _)
FindIterFrom(re, text, pos, icase) ==
    LET m == ReSearch(re, text, pos, icase)
    IN  IF m = NoMatch THEN <<>>
        ELSE <<m>> \o FindIterFrom(re, text,
                          IF m.end > m.start THEN m.end ELSE m.end + 1, icase)

FindIter(re, text, icase) == FindIterFrom(re, text, 0, icase)

\* m.group(1)
Group1(text, m) == Slice(text, m.g[1], m.g[2])

\* m.group(0)
Group0(text, m) == Slice(text, m.start, m.end)

(***************************************************************************)
(* The document model: what docx gives the checks for one paragraph        *)
(***************************************************************************)
\* The children of the paragraph's w:r elements, in document order
FldChar(type) == [tag |-> "fldChar", val |-> type]
InstrText(text) == [tag |-> "instrText", text |-> text]
T(text) == [tag |-> "t", text |-> text]

\* Paragraph.text: the texts of the w:t elements of the runs, joined
ParagraphText(runs) ==
    Join([k \in 1..Len(runs) |->
            IF runs[k].tag = "t" THEN runs[k].text ELSE <<>>])

\* A paragraph: style.name, pPr/outlineLvl@val (None: absent), whether pPr
\* holds a numPr, the run children, the names of its bookmarkStart elements
\* (None: no name attribute), and .text
Paragraph(style, outlineLvl, numPr, runs, bookmarks) ==
    [style |-> style, outlineLvl |-> outlineLvl, numPr |-> numPr,
     runs |-> runs, bookmarks |-> bookmarks, text |-> ParagraphText(runs)]

StyleTitle == <<"T", "i", "t", "l", "e">>
StyleNormal == <<"N", "o", "r", "m", "a", "l">>
StyleHeadingWord == <<"H", "e", "a", "d", "i", "n", "g">>
StyleHeading(digit) == StyleHeadingWord \o <<" ", digit>>

\* A body paragraph of plain text
Plain(text) == Paragraph(StyleNormal, None, FALSE, <<T(text)>>, <<>>)

\* A body paragraph of plain text that is a Word list item
ListPara(text) == Paragraph(StyleNormal, None, TRUE, <<T(text)>>, <<>>)

\* A heading paragraph made with a built-in heading style
HeadingPara(digit, text) == Paragraph(StyleHeading(digit), None, FALSE, <<T(text)>>, <<>>)

\* The document title
TitlePara(text) == Paragraph(StyleTitle, None, FALSE, <<T(text)>>, <<>>)

\* A heading paragraph of a custom style with an outline level
OutlinePara(val, text) == Paragraph(StyleNormal, val, FALSE, <<T(text)>>, <<>>)

(***************************************************************************)
(* docx_parser.py                                                          *)
(***************************************************************************)
\* a classifier that asks the outline level before the heading style
DetectHeadingLevelOutlineFirst(p) ==
    LET parts == SplitWs(p.style)
    IN  IF p.style = StyleTitle THEN 0
        ELSE IF p.outlineLvl # None /\ IsDigitStr(p.outlineLvl)
             THEN ToInt(p.outlineLvl) + 1
        ELSE IF /\ StartsWith(p.style, StyleHeadingWord)
                /\ Len(parts) = 2
                /\ IsDigitStr(parts[2])
             THEN ToInt(parts[2])
        ELSE NoLevel

\* _detect_heading_level
DetectHeadingLevel(p) ==
    LET parts == SplitWs(p.style)
    IN  IF p.style = StyleTitle THEN 0
        ELSE IF /\ StartsWith(p.style, StyleHeadingWord)
                /\ Len(parts) = 2
                /\ IsDigitStr(parts[2])
             THEN ToInt(parts[2])
        ELSE IF p.outlineLvl # None /\ IsDigitStr(p.outlineLvl)
             THEN ToInt(p.outlineLvl) + 1
        ELSE NoLevel

IsHeading(p) == DetectHeadingLevel(p) # NoLevel

\* load_document_structure, lines 118-124: the flat heading list
FlatHeadings(paras) ==
    LET at == SelectIdx(Len(paras), {k \in 1..Len(paras) : IsHeading(paras[k])})
    IN  [j \in 1..Len(at) |->
            [level |-> DetectHeadingLevel(paras[at[j]]),
             text |-> Strip(paras[at[j]].text),
             paragraph_index |-> at[j] - 1]]

\* _build_heading_tree, lines 64-69: the node made for heading h
MakeNode(h) ==
    [level |-> h.level, text |-> h.text,
     paragraph_index |-> h.paragraph_index, children |-> <<>>]

\* a pop that closes only strictly deeper nodes
PopWhileStrict(st, nds, level) ==
    st # <<>> /\ nds[st[Len(st)]].level > level

\* _build_heading_tree, line 72: the loop condition of the pop
PopWhile(st, nds, level) ==
    st # <<>> /\ nds[st[Len(st)]].level >= level

\* _build_heading_tree, lines 72-73: pop until the top has a lower level
RECURSIVE PopStack(_, _, _)
PopStack(st, nds, level) ==
    IF PopWhile(st, nds, level)
    THEN PopStack(SubSeq(st, 1, Len(st) - 1), nds, level)
    ELSE st

\* _build_heading_tree, lines 75-76: stack[-1]["children"].append(node)
AttachChild(nds, st, id) ==
    IF st # <<>>
    THEN [nds EXCEPT ![st[Len(st)]].children = Append(@, id)]
    ELSE nds

\* a root that takes no node
AttachRootDropped(rt, st, id) == rt

\* _build_heading_tree, lines 77-78: root.append(node)
AttachRoot(rt, st, id) ==
    IF st = <<>> THEN Append(rt, id) ELSE rt

\* _build_heading_tree, lines 63-80: one iteration of the loop, for heading h
BuildOne(h, nds, rt, st) ==
    LET id == Len(nds) + 1
        made == Append(nds, MakeNode(h))
        popped == PopStack(st, made, h.level)
    IN  [nodes |-> AttachChild(made, popped, id),
         root |-> AttachRoot(rt, popped, id),
         stack |-> Append(popped, id)]

\* _build_heading_tree, lines 60-82: the loop from heading k on
RECURSIVE BuildFrom(_, _, _)
BuildFrom(hs, k, built) ==
    IF k > Len(hs) THEN built
    ELSE BuildFrom(hs, k + 1,
                   BuildOne(hs[k], built.nodes, built.root, built.stack))

\* _build_heading_tree
BuildHeadingTree(hs) ==
    BuildFrom(hs, 1, [nodes |-> <<>>, root |-> <<>>, stack |-> <<>>])

\* The forest as the nested value the caller receives
RECURSIVE TreeOf(_, _)
TreeOf(ids, nds) ==
    [k \in 1..Len(ids) |->
        [level |-> nds[ids[k]].level,
         text |-> nds[ids[k]].text,
         paragraph_index |-> nds[ids[k]].paragraph_index,
         children |-> TreeOf(nds[ids[k]].children, nds)]]

(***************************************************************************)
(* load_document_structure, one loop iteration of _build_heading_tree per  *)
(* step                                                                    *)
(***************************************************************************)
\* All sequences over S of length at most n
SeqsUpTo(S, n) == UNION {[1..k -> S] : k \in 0..n}

MaxTreeParas == 5

TextA == <<"A">>
TextX == <<"x">>

TreeParas ==
    {Plain(TextX), TitlePara(TextA), HeadingPara("1", TextA),
     HeadingPara("2", TextA), HeadingPara("3", TextA)}

\* The locals of the entry points that are not running
IdleTree == headings = <<>> /\ nodes = <<>> /\ root = <<>> /\ stack = <<>>

IdleWhitespace == prev_blank = FALSE

IdleEnum == current_run = <<>> /\ current_section = None /\ flush_log = <<>>

\* No file system is involved and no call is in progress: the document is
\* taken as opened
IdleSession == fs = <<>> /\ call = [fn |-> "none"] /\ earlier = [fn |-> "none"]

Init ==
    /\ paragraphs \in SeqsUpTo(TreeParas, MaxTreeParas)
    /\ pc = "start"
    /\ idx = 0
    /\ issues = <<>>
    /\ result = NoResult
    /\ IdleTree /\ IdleWhitespace /\ IdleEnum /\ IdleSession

\* load_document_structure, lines 115-124
LoadStart ==
    /\ pc = "start"
    /\ headings' = FlatHeadings(paragraphs)
    /\ pc' = "build"
    /\ UNCHANGED <<fs, call, earlier>>
    /\ UNCHANGED <<paragraphs, idx, nodes, root, stack, issues, prev_blank,
                   current_run, current_section, flush_log, result>>

\* _build_heading_tree, lines 63-80: one heading
BuildStep ==
    /\ pc = "build"
    /\ idx < Len(headings)
    /\ LET built == BuildOne(headings[idx + 1], nodes, root, stack)
       IN  /\ nodes' = built.nodes
           /\ root' = built.root
           /\ stack' = built.stack
    /\ idx' = idx + 1
    /\ UNCHANGED <<fs, call, earlier>>
    /\ UNCHANGED <<paragraphs, pc, headings, issues, prev_blank,
                   current_run, current_section, flush_log, result>>

\* load_document_structure, lines 126-132
LoadReturn ==
    /\ pc = "build"
    /\ idx = Len(headings)
    /\ result' = [kind |-> "structure",
                  paragraph_count |-> Len(paragraphs),
                  heading_count |-> Len(headings),
                  headings |-> headings,
                  heading_tree |-> TreeOf(root, nodes)]
    /\ pc' = "done"
    /\ UNCHANGED <<fs, call, earlier>>
    /\ UNCHANGED <<paragraphs, idx, headings, nodes, root, stack, issues,
                   prev_blank, current_run, current_section, flush_log>>

Next == LoadStart \/ BuildStep \/ LoadReturn

Spec == Init /\ [][Next]_vars

(***************************************************************************)
(* Properties of the heading tree                                          *)
(***************************************************************************)
\* The number of nodes of a forest
RECURSIVE NodeCount(_)
NodeCount(forest) ==
    IF forest = <<>> THEN 0
    ELSE 1 + NodeCount(Head(forest).children) + NodeCount(Tail(forest))

\* The (level, text, paragraph_index) of the nodes of a forest, in pre-order
RECURSIVE PreOrder(_)
PreOrder(forest) ==
    IF forest = <<>> THEN <<>>
    ELSE <<[level |-> Head(forest).level, text |-> Head(forest).text,
            paragraph_index |-> Head(forest).paragraph_index]>>
         \o PreOrder(Head(forest).children) \o PreOrder(Tail(forest))

\* C1: after every iteration the forest has one node per heading consumed
\* and its pre-order is the consumed prefix of the flat list; so the value
\* returned has heading_count = node count of heading_tree and the pre-order
\* of heading_tree is headings.
C1_PreOrderIsFlatList ==
    /\ pc \in {"build", "done"} =>
          /\ NodeCount(TreeOf(root, nodes)) = idx
          /\ PreOrder(TreeOf(root, nodes)) = SubSeq(headings, 1, idx)
    /\ pc = "done" =>
          /\ result.heading_count = NodeCount(result.heading_tree)
          /\ PreOrder(result.heading_tree) = result.headings
          /\ result.headings = FlatHeadings(paragraphs)

\* a returned forest built from repeated levels, a level gap (1 then 3) and
\* two level-0 headings
C1_Witness ==
    /\ pc = "done"
    /\ result.heading_count = 5
    /\ Cardinality({k \in 1..5 : result.headings[k].level = 0}) = 2
    /\ \E k \in 1..4 : /\ result.headings[k].level = 1
                       /\ result.headings[k + 1].level = 3
    /\ \E k \in 1..4 : result.headings[k].level = result.headings[k + 1].level

\* The nearest preceding heading of strictly lower level (0: there is none)
NearestLower(k) ==
    LET lower == {j \in 1..(k - 1) : headings[j].level < headings[k].level}
    IN  IF lower = {} THEN 0 ELSE CHOOSE j \in lower : \A m \in lower : m <= j

Elems(s) == {s[k] : k \in 1..Len(s)}

\* C2: every child is strictly deeper than its parent; the parent of a node
\* is the nearest preceding heading of strictly lower level, and a node with
\* no such heading is a root (so equal-level top headings are root siblings).
C2_ParentIsNearestLower ==
    pc \in {"build", "done"} =>
        /\ Len(nodes) = idx
        /\ \A k \in 1..idx :
              /\ \A c \in Elems(nodes[k].children) :
                    nodes[c].level > nodes[k].level
              /\ k \in Elems(root) <=> NearestLower(k) = 0
              /\ \A n \in 1..idx :
                    k \in Elems(nodes[n].children) <=> NearestLower(k) = n
              /\ nodes[k].level = headings[k].level

\* two level-0 headings are root siblings and a level-3 heading is the child
\* of a level-1 heading
C2_Witness ==
    /\ pc = "done"
    /\ \E a, b \in Elems(root) : a # b /\ nodes[a].level = 0 /\ nodes[b].level = 0
    /\ \E n \in 1..idx : \E c \in Elems(nodes[n].children) :
          nodes[n].level = 1 /\ nodes[c].level = 3

(***************************************************************************)
(* checks.py: whitespace                                                   *)
(***************************************************************************)
Min(a, b) == IF a <= b THEN a ELSE b

Max(a, b) == IF a >= b THEN a ELSE b

DisplayWidth == 80

ContextWidth == 20

\* text[:80] + ("..." if len(text) > 80 else ""), "..." being one character
Display(text) ==
    IF Len(text) > DisplayWidth
    THEN SubSeq(text, 1, DisplayWidth) \o <<"ELLIPSIS">>
    ELSE text

\* a pattern that a single space matches
RE_SINGLE_SPACE == RRep(RChar({" "}), 1, Unbounded)

\* _RE_DOUBLE_SPACE = re.compile(r"  +")
RE_DOUBLE_SPACE == RCat(<<RChar({" "}), RRep(RChar({" "}), 1, Unbounded)>>)

\* a lookup that inspects only the paragraph directly before para_idx
FindParentHeadingOneBack(paras, i) ==
    IF i - 1 < 0 THEN None
    ELSE IF DetectHeadingLevel(paras[i]) # NoLevel THEN Strip(paras[i].text)
    ELSE None

\* _find_parent_heading
RECURSIVE FindParentHeading(_, _)
FindParentHeading(paras, i) ==
    IF i - 1 < 0 THEN None
    ELSE IF DetectHeadingLevel(paras[i]) # NoLevel THEN Strip(paras[i].text)
    ELSE FindParentHeading(paras, i - 1)

\* a list test that finds no list item
IsListItemNever(p) == FALSE

\* _is_list_item
IsListItem(p) == p.numPr

\* a heading that leaves the blank-tracking flag as it was
PrevBlankKept(prev) == prev

\* check_whitespace, lines 56-58: the flag after a heading
PrevBlankAfterHeading(prev) == FALSE

\* check_whitespace, lines 63-70
BlankIssues(i, section, is_blank, prev) ==
    IF is_blank /\ prev
    THEN <<[type |-> "consecutive_blank_paragraphs",
            paragraph_index |-> i,
            section |-> section,
            text |-> <<>>,
            detail |-> "Multiple consecutive blank paragraphs"]>>
    ELSE <<>>

\* check_whitespace, lines 77-87
DoubleSpaceIssues(text, i, section) ==
    LET ms == FindIter(RE_DOUBLE_SPACE, text, FALSE)
    IN  [k \in 1..Len(ms) |->
            [type |-> "double_space",
             paragraph_index |-> i,
             section |-> section,
             text |-> Display(text),
             detail |-> [position |-> ms[k].start,
                         context |-> Slice(text,
                                        Max(0, ms[k].start - ContextWidth),
                                        Min(Len(text), ms[k].end + ContextWidth))]]]

\* check_whitespace, lines 90-98
TrailingIssues(text, i, section) ==
    IF text # RStrip(text)
    THEN <<[type |-> "trailing_whitespace",
            paragraph_index |-> i,
            section |-> section,
            text |-> Display(RStrip(text)),
            detail |-> [count |-> Len(text) - Len(RStrip(text))]]>>
    ELSE <<>>

\* check_whitespace, lines 101-109
LeadingIssues(p, i, section) ==
    IF p.text # LStrip(p.text) /\ ~IsListItem(p)
    THEN <<[type |-> "leading_whitespace",
            paragraph_index |-> i,
            section |-> section,
            text |-> Display(Strip(p.text)),
            detail |-> [count |-> Len(p.text) - Len(LStrip(p.text))]]>>
    ELSE <<>>

MaxWsParas == 3

WsTexts ==
    {<<"f", "o", "o", " ", " ", "b", "a", "r">>,
     <<"f", "o", "o", " ", " ", " ", "b", "a", "r">>,
     <<"a", " ", "b">>,
     <<"a", " ", " ", "b", " ", " ", " ", "c", "\t">>,
     <<" ", " ", "a">>,
     <<>>,
     <<" ", " ">>}

WsParas ==
    {Plain(t) : t \in WsTexts}
        \cup {Plain(<<"\t", "a">>), ListPara(<<"\t", "a">>),
              ListPara(<<" ", " ", "a">>),
              HeadingPara("1", <<"A", " ", " ", "B">>),
              HeadingPara("2", <<" ", "C">>)}

InitWhitespace ==
    /\ paragraphs \in SeqsUpTo(WsParas, MaxWsParas)
    /\ pc = "ws"
    /\ idx = 0
    /\ issues = <<>>
    /\ result = NoResult
    /\ IdleTree /\ IdleWhitespace /\ IdleEnum /\ IdleSession

\* check_whitespace, lines 50-109: one paragraph
WsStep ==
    /\ pc = "ws"
    /\ idx < Len(paragraphs)
    /\ LET p == paragraphs[idx + 1]
           text == p.text
           level == DetectHeadingLevel(p)
           section == FindParentHeading(paragraphs, idx)
           is_blank == Strip(text) = <<>>
       IN  IF level # NoLevel
           THEN /\ prev_blank' = PrevBlankAfterHeading(prev_blank)
                /\ issues' = issues
           ELSE /\ prev_blank' = is_blank
                /\ issues' =
                      issues
                      \o BlankIssues(idx, section, is_blank, prev_blank)
                      \o (IF is_blank THEN <<>>
                          ELSE DoubleSpaceIssues(text, idx, section)
                               \o TrailingIssues(text, idx, section)
                               \o LeadingIssues(p, idx, section))
    /\ idx' = idx + 1
    /\ UNCHANGED <<fs, call, earlier>>
    /\ UNCHANGED <<paragraphs, pc, headings, nodes, root, stack,
                   current_run, current_section, flush_log, result>>

\* check_whitespace, lines 111-115
WsReturn ==
    /\ pc = "ws"
    /\ idx = Len(paragraphs)
    /\ result' = [kind |-> "whitespace",
                  issue_count |-> Len(issues),
                  issues |-> issues]
    /\ pc' = "done"
    /\ UNCHANGED <<fs, call, earlier>>
    /\ UNCHANGED <<paragraphs, idx, headings, nodes, root, stack, issues,
                   prev_blank, current_run, current_section, flush_log>>

NextWhitespace == WsStep \/ WsReturn

SpecWhitespace == InitWhitespace /\ [][NextWhitespace]_vars

(***************************************************************************)
(* Properties of check_whitespace                                          *)
(***************************************************************************)
\* The issues of one type reported for paragraph index i, in order
IssuesOf(type, i) ==
    LET at == SelectIdx(Len(issues),
                  {j \in 1..Len(issues) :
                      issues[j].type = type /\ issues[j].paragraph_index = i})
    IN  [j \in 1..Len(at) |-> issues[at[j]]]

\* The offsets at which a maximal run of two or more spaces starts
SpaceRunStarts(text) ==
    {o \in 0..(Len(text) - 2) :
        /\ text[o + 1] = " " /\ text[o + 2] = " "
        /\ (o = 0 \/ text[o] # " ")}

\* The paragraphs the scan has passed that are neither headings nor blank
ScannedBody ==
    {i \in 0..(idx - 1) :
        /\ ~IsHeading(paragraphs[i + 1])
        /\ \E k \in 1..Len(paragraphs[i + 1].text) :
              paragraphs[i + 1].text[k] \notin WhitespaceChars}

FooBar2 == <<"f", "o", "o", " ", " ", "b", "a", "r">>

FooBar3 == <<"f", "o", "o", " ", " ", " ", "b", "a", "r">>

\* C9: for every non-blank, non-heading paragraph the double_space issues
\* are, in order, one per maximal run of two or more spaces, each reporting
\* the 0-based offset of the run's first space; "foo  bar" gives one issue at
\* offset 3 and "foo   bar" gives exactly one.
C9_OneIssuePerSpaceRun ==
    pc \in {"ws", "done"} =>
        \A i \in ScannedBody :
            LET text == paragraphs[i + 1].text
                found == IssuesOf("double_space", i)
            IN  /\ Len(found) = Cardinality(SpaceRunStarts(text))
                /\ \A j \in 1..Len(found) :
                      found[j].detail.position \in SpaceRunStarts(text)
                /\ \A j \in 1..(Len(found) - 1) :
                      found[j].detail.position < found[j + 1].detail.position
                /\ text = FooBar2 =>
                      Len(found) = 1 /\ found[1].detail.position = 3
                /\ text = FooBar3 => Len(found) = 1

\* "foo   bar" was scanned, and so was a paragraph with two runs of spaces
C9_Witness ==
    /\ pc = "done"
    /\ \E i \in ScannedBody :
          /\ paragraphs[i + 1].text = FooBar3
          /\ Len(IssuesOf("double_space", i)) = 1
    /\ \E i \in ScannedBody : Len(IssuesOf("double_space", i)) = 2

\* C10: a non-blank, non-heading paragraph whose text begins with whitespace
\* has a leading_whitespace issue exactly when it has no list-numbering
\* property; a paragraph with list numbering is never flagged.
C10_LeadingUnlessListItem ==
    pc \in {"ws", "done"} =>
        /\ \A i \in ScannedBody :
              paragraphs[i + 1].text[1] \in WhitespaceChars =>
                  (Len(IssuesOf("leading_whitespace", i)) = 1
                      <=> ~paragraphs[i + 1].numPr)
        /\ \A j \in 1..Len(issues) :
              issues[j].type = "leading_whitespace" =>
                  ~paragraphs[issues[j].paragraph_index + 1].numPr

\* the same text beginning with whitespace, once as a list item (not
\* flagged) and once without list formatting (flagged)
C10_Witness ==
    /\ pc = "done"
    /\ \E i, k \in ScannedBody :
          /\ paragraphs[i + 1].text = paragraphs[k + 1].text
          /\ paragraphs[i + 1].text[1] \in WhitespaceChars
          /\ paragraphs[i + 1].numPr /\ ~paragraphs[k + 1].numPr
          /\ IssuesOf("leading_whitespace", i) = <<>>
          /\ Len(IssuesOf("leading_whitespace", k)) = 1

\* The section label of paragraph index i: the trimmed text of the nearest
\* heading (of any level) at an index below i, None when there is none
NearestHeadingLabel(paras, i) ==
    LET before == {k \in 0..(i - 1) : IsHeading(paras[k + 1])}
        k == CHOOSE m \in before : \A n \in before : n <= m
    IN  IF before = {} THEN None ELSE Strip(paras[k + 1].text)

\* C11: _find_parent_heading is monotonic: two non-heading paragraphs
\* i < j with no heading in (i, j] get the same section label, which is the
\* trimmed text of the nearest preceding heading of any level or None; and
\* every issue the scan has recorded carries the label of its paragraph.
C11_ParentHeadingMonotonic ==
    /\ \A i, j \in 0..(Len(paragraphs) - 1) :
          (/\ i < j
           /\ ~IsHeading(paragraphs[i + 1])
           /\ ~IsHeading(paragraphs[j + 1])
           /\ \A k \in (i + 1)..j : ~IsHeading(paragraphs[k + 1]))
          => /\ FindParentHeading(paragraphs, i) = FindParentHeading(paragraphs, j)
             /\ FindParentHeading(paragraphs, j) = NearestHeadingLabel(paragraphs, i)
    /\ \A n \in 1..Len(issues) :
          issues[n].section = NearestHeadingLabel(paragraphs, issues[n].paragraph_index)

\* the scan has reported issues for two paragraphs that follow one heading,
\* both under that heading's trimmed text
C11_Witness ==
    /\ pc = "done"
    /\ Len(paragraphs) = 3
    /\ IsHeading(paragraphs[1])
    /\ paragraphs[1].text # Strip(paragraphs[1].text)
    /\ \E a, b \in 1..Len(issues) :
          /\ issues[a].paragraph_index = 1
          /\ issues[b].paragraph_index = 2
          /\ issues[a].section = Strip(paragraphs[1].text)
          /\ issues[b].section = issues[a].section

\* The paragraph at index i is a non-heading paragraph of whitespace only
IsBlankBody(paras, i) ==
    /\ i \in 0..(Len(paras) - 1)
    /\ ~IsHeading(paras[i + 1])
    /\ \A k \in 1..Len(paras[i + 1].text) :
          paras[i + 1].text[k] \in WhitespaceChars

\* The consecutive_blank_paragraphs issues recorded so far
BlankFlags ==
    SelectSeq(issues, LAMBDA e : e.type = "consecutive_blank_paragraphs")

\* C24: a paragraph the scan has passed has a consecutive_blank_paragraphs
\* issue (one, with empty text) iff it is a blank non-heading paragraph and
\* the paragraph directly before it is a blank non-heading paragraph too; so
\* a heading between two blank paragraphs prevents the flag, a blank
\* paragraph directly after a heading is not flagged, the first paragraph
\* is not flagged, and a block of k blank paragraphs with no heading among
\* them has k - 1 issues. The returned list holds the same flags.
C24_BlankFlaggedIffPreviousBlank ==
    /\ \A i \in 0..(idx - 1) :
          LET flags == IssuesOf("consecutive_blank_paragraphs", i)
          IN  IF IsBlankBody(paragraphs, i) /\ IsBlankBody(paragraphs, i - 1)
              THEN Len(flags) = 1 /\ flags[1].text = <<>>
              ELSE flags = <<>>
    /\ \A lo, hi \in 0..(idx - 1) :
          (/\ lo <= hi
           /\ \A i \in lo..hi : IsBlankBody(paragraphs, i)
           /\ ~IsBlankBody(paragraphs, lo - 1))
          => Cardinality({n \in 1..Len(BlankFlags) :
                            BlankFlags[n].paragraph_index \in lo..hi}) = hi - lo
    /\ \A n \in 1..Len(BlankFlags) : BlankFlags[n].paragraph_index < idx
    /\ pc = "done" => result.issues = issues

\* a blank paragraph, a heading and a blank paragraph were scanned without
\* a flag
C24_Witness ==
    /\ pc = "done"
    /\ Len(paragraphs) = 3
    /\ IsBlankBody(paragraphs, 0)
    /\ IsHeading(paragraphs[2])
    /\ IsBlankBody(paragraphs, 2)
    /\ result.issue_count = 0

(***************************************************************************)
(* checks.py: enumeration check                                            *)
(***************************************************************************)
AsciiLower == {LowerChars[k] : k \in 1..26}

\* _RE_ENUM_BOTH_PARENS = re.compile(r'^\(([a-z]{1,4})\)\s', re.IGNORECASE)
RE_ENUM_BOTH_PARENS ==
    RCat(<<RBol, RChar({"("}), RGroup(RRep(RChar(AsciiLower), 1, 4)),
           RChar({")"}), RChar(WhitespaceChars)>>)

\* _RE_ENUM_RIGHT_PAREN = re.compile(r'^([a-z]{1,4})\)\s', re.IGNORECASE)
RE_ENUM_RIGHT_PAREN ==
    RCat(<<RBol, RGroup(RRep(RChar(AsciiLower), 1, 4)),
           RChar({")"}), RChar(WhitespaceChars)>>)

NoItem == [style |-> "none", marker |-> <<>>]

\* _detect_text_list_pattern
DetectTextListPattern(text) ==
    LET both == ReMatch(RE_ENUM_BOTH_PARENS, text, TRUE)
        right == ReMatch(RE_ENUM_RIGHT_PAREN, text, TRUE)
    IN  IF both # NoMatch
        THEN [style |-> "(x)", marker |-> Lower(Group1(text, both))]
        ELSE IF right # NoMatch
        THEN [style |-> "x)", marker |-> Lower(Group1(text, right))]
        ELSE NoItem

\* a terminator that is empty unless the text ends with punctuation
GetTerminatorPunct(text) ==
    LET stripped == RStrip(text)
    IN  IF stripped # <<>> /\ stripped[Len(stripped)] \in {",", ";", "."}
        THEN <<stripped[Len(stripped)]>>
        ELSE <<>>

\* _get_terminator
GetTerminator(text) ==
    LET stripped == RStrip(text)
    IN  IF stripped # <<>> THEN <<stripped[Len(stripped)]>> ELSE <<>>

\* the terminators of all items, the last included
AllTerms(terminators) == terminators

\* _check_list_delimiters, line 218: terminators[:-1]
NonLastTerms(terminators) == SubSeq(terminators, 1, Len(terminators) - 1)

\* sep.join(parts)
RECURSIVE JoinWith(_, _)
JoinWith(sep, parts) ==
    IF parts = <<>> THEN <<>>
    ELSE IF Len(parts) = 1 THEN parts[1]
    ELSE parts[1] \o sep \o JoinWith(sep, Tail(parts))

\* _check_list_delimiters
CheckListDelimiters(items) ==
    LET terminators == [k \in 1..Len(items) |-> GetTerminator(items[k].text)]
        non_last_terms == NonLastTerms(terminators)
        relevant == {non_last_terms[k] : k \in 1..Len(non_last_terms)}
                        \cap {<<",">>, <<";">>, <<".">>}
    IN  IF Len(items) < 2 THEN <<>>
        ELSE IF Cardinality(relevant) > 1
        THEN <<[check |-> "terminator_inconsistency",
                detail |-> [message |-> "Inconsistent terminators among enumeration items",
                            term_str |-> JoinWith(<<"/">>, terminators)],
                terminators |-> terminators]>>
        ELSE <<>>

\* check_enumerations, lines 251-261: the issues flush() appends
Flush(run) ==
    LET probs == CheckListDelimiters(run)
    IN  [k \in 1..Len(probs) |->
            [type |-> probs[k].check,
             paragraph_index |-> run[1].paragraph_index,
             section |-> run[1].section,
             text |-> Display(run[1].text),
             detail |-> probs[k].detail,
             terminators |-> probs[k].terminators]]

\* one call of flush(), as the log keeps it
FlushCall(run) == [run |-> run, out |-> Flush(run)]

\* a style test that never restarts the run
StyleChangedNever(run, item_info) == FALSE

\* check_enumerations, line 286
StyleChanged(run, item_info) ==
    run # <<>> /\ run[Len(run)].style # item_info.style

\* a label that only a heading of level 0 or 1 replaces
SectionAfterHeadingTopOnly(section, p) ==
    IF DetectHeadingLevel(p) <= 1 THEN Strip(p.text) ELSE section

\* check_enumerations, line 268: the section label after a heading
SectionAfterHeading(section, p) == Strip(p.text)

\* a restart that drops the paragraph that caused it
RunAfterItemDropsOnRestart(run, item, restart) ==
    IF restart THEN <<>> ELSE Append(run, item)

\* check_enumerations, lines 286-294: the run once the item has joined it
RunAfterItem(run, item, restart) ==
    IF restart THEN Append(<<>>, item) ELSE Append(run, item)

\* an end of document that validates nothing
FinalFlushSkipped(run) == <<>>

\* check_enumerations, line 296: flush() of the trailing run
FinalFlush(run) == Flush(run)

MaxEnumParas == 3

ItemA_Semi == <<"a", ")", " ", "x", ";">>
ItemB_Semi == <<"b", ")", " ", "y", ";">>
ItemC_Dot == <<"c", ")", " ", "z", ".">>
ItemA_Comma == <<"a", ")", " ", "x", ",">>
ItemC_Bare == <<"c", ")", " ", "z">>

EnumItemTexts ==
    {ItemA_Semi, ItemB_Semi, ItemC_Dot, ItemA_Comma, ItemC_Bare,
     <<"(", "a", ")", " ", "x", ",">>,
     <<"(", "I", "I", ")", "\t", "y", ".", " ">>}

EnumParas ==
    {Plain(t) : t \in EnumItemTexts}
        \cup {Plain(<<"x", ";">>), Plain(<<>>), HeadingPara("1", TextA)}

InitEnum ==
    /\ paragraphs \in SeqsUpTo(EnumParas, MaxEnumParas)
    /\ pc = "enum"
    /\ idx = 0
    /\ issues = <<>>
    /\ result = NoResult
    /\ IdleTree /\ IdleWhitespace /\ IdleEnum /\ IdleSession

\* check_enumerations, lines 263-294: one paragraph
EnumStep ==
    /\ pc = "enum"
    /\ idx < Len(paragraphs)
    /\ LET p == paragraphs[idx + 1]
           text == p.text
           level == DetectHeadingLevel(p)
           item_info == DetectTextListPattern(text)
           restart == StyleChanged(current_run, item_info)
           item == [paragraph_index |-> idx,
                    section |-> current_section,
                    text |-> text,
                    style |-> item_info.style,
                    marker |-> item_info.marker]
       IN  IF level # NoLevel
           THEN /\ issues' = issues \o Flush(current_run)
                /\ flush_log' = Append(flush_log, FlushCall(current_run))
                /\ current_run' = <<>>
                /\ current_section' = SectionAfterHeading(current_section, p)
           ELSE IF Strip(text) = <<>> \/ item_info = NoItem
           THEN /\ issues' = issues \o Flush(current_run)
                /\ flush_log' = Append(flush_log, FlushCall(current_run))
                /\ current_run' = <<>>
                /\ current_section' = current_section
           ELSE IF restart
           THEN /\ issues' = issues \o Flush(current_run)
                /\ flush_log' = Append(flush_log, FlushCall(current_run))
                /\ current_run' = RunAfterItem(current_run, item, TRUE)
                /\ current_section' = current_section
           ELSE /\ issues' = issues
                /\ flush_log' = flush_log
                /\ current_run' = RunAfterItem(current_run, item, FALSE)
                /\ current_section' = current_section
    /\ idx' = idx + 1
    /\ UNCHANGED <<fs, call, earlier>>
    /\ UNCHANGED <<paragraphs, pc, headings, nodes, root, stack,
                   prev_blank, result>>

\* check_enumerations, lines 296-302
EnumReturn ==
    /\ pc = "enum"
    /\ idx = Len(paragraphs)
    /\ issues' = issues \o FinalFlush(current_run)
    /\ flush_log' = Append(flush_log, FlushCall(current_run))
    /\ result' = [kind |-> "enumerations",
                  issue_count |-> Len(issues'),
                  issues |-> issues']
    /\ pc' = "done"
    /\ UNCHANGED <<fs, call, earlier>>
    /\ UNCHANGED <<paragraphs, idx, headings, nodes, root, stack,
                   prev_blank, current_run, current_section>>

NextEnum == EnumStep \/ EnumReturn

SpecEnum == InitEnum /\ [][NextEnum]_vars

\* documents with an article heading, a sub-heading and runs long enough to
\* give an issue below them
MaxSubParas == 5

SubParas ==
    {HeadingPara("1", TextA), HeadingPara("2", <<" ", "B">>),
     Plain(ItemA_Comma), Plain(ItemB_Semi)}

InitEnumSub ==
    /\ paragraphs \in SeqsUpTo(SubParas, MaxSubParas)
    /\ pc = "enum"
    /\ idx = 0
    /\ issues = <<>>
    /\ result = NoResult
    /\ IdleTree /\ IdleWhitespace /\ IdleEnum /\ IdleSession

SpecEnumSub == InitEnumSub /\ [][NextEnum]_vars

(***************************************************************************)
(* Properties of check_enumerations                                        *)
(***************************************************************************)
Delimiters == {",", ";", "."}

\* The last character of text that is not whitespace, as a string; the empty
\* string when there is none
LastNonSpace(text) ==
    LET at == {k \in 1..Len(text) : text[k] \notin WhitespaceChars}
    IN  IF at = {} THEN <<>>
        ELSE <<text[CHOOSE k \in at : \A m \in at : m <= k]>>

\* Two items other than the last end with distinct delimiters
MixedNonLast(run) ==
    \E a, b \in 1..(Len(run) - 1) :
        LET ta == LastNonSpace(run[a].text)
            tb == LastNonSpace(run[b].text)
        IN  /\ ta # tb
            /\ Len(ta) = 1 /\ ta[1] \in Delimiters
            /\ Len(tb) = 1 /\ tb[1] \in Delimiters

WithText(run, k, text) == [run EXCEPT ![k].text = text]

\* C3: for every call of flush(): a run of fewer than 2 items yields nothing;
\* a run of 2 or more yields exactly one terminator_inconsistency issue iff
\* the items other than the last end with at least two distinct delimiters
\* of {",", ";", "."}; replacing the last item's text, or replacing one
\* non-delimiter ending by another, never changes whether an issue is made.
C3_FlushIssueIffMixedNonLast ==
    \A n \in 1..Len(flush_log) :
        LET run == flush_log[n].run
            out == flush_log[n].out
        IN  /\ Len(run) < 2 => out = <<>>
            /\ Len(run) >= 2 /\ MixedNonLast(run) =>
                  Len(out) = 1 /\ out[1].type = "terminator_inconsistency"
            /\ Len(run) >= 2 /\ ~MixedNonLast(run) => out = <<>>
            /\ \A t \in EnumItemTexts :
                  /\ Len(run) >= 1 =>
                        ((Flush(WithText(run, Len(run), t)) = <<>>) <=> (out = <<>>))
                  /\ \A k \in 1..Len(run) :
                        /\ LastNonSpace(t)[1] \notin Delimiters
                        /\ LastNonSpace(run[k].text)[1] \notin Delimiters
                        => ((Flush(WithText(run, k, t)) = <<>>) <=> (out = <<>>))

\* a run of three whose first two items end with distinct delimiters, and
\* whose last item ends with no delimiter, was flushed with one issue
C3_Witness ==
    /\ pc = "done"
    /\ \E n \in 1..Len(flush_log) :
          /\ Len(flush_log[n].run) = 3
          /\ MixedNonLast(flush_log[n].run)
          /\ LastNonSpace(flush_log[n].run[3].text)[1] \notin Delimiters
          /\ Len(flush_log[n].out) = 1
          /\ issues = flush_log[n].out

GoodRunDoc == <<Plain(ItemA_Semi), Plain(ItemB_Semi), Plain(ItemC_Dot)>>

BadRunDoc == <<Plain(ItemA_Comma), Plain(ItemB_Semi), Plain(ItemC_Bare)>>

\* C4 as amended: the run ["a) x;", "b) y;", "c) z."] gives no issue; the run
\* ["a) x,", "b) y;", "c) z"] gives exactly one terminator_inconsistency
\* issue whose terminator list is [",", ";", "z"]: the terminator of an item
\* that ends without punctuation is its last non-whitespace character.
C4_ExampleRuns ==
    pc = "done" =>
        /\ paragraphs = GoodRunDoc => result.issues = <<>>
        /\ paragraphs = BadRunDoc =>
              /\ result.issue_count = 1
              /\ Len(result.issues) = 1
              /\ result.issues[1].type = "terminator_inconsistency"
              /\ result.issues[1].terminators = <<<<",">>, <<";">>, <<"z">>>>

C4_Witness ==
    /\ pc = "done"
    /\ paragraphs = BadRunDoc
    /\ Len(result.issues) = 1

\* C4 as stated: the terminator list of the second run is [",", ";", ""]
C4_AsStated ==
    pc = "done" =>
        /\ paragraphs = GoodRunDoc => result.issues = <<>>
        /\ paragraphs = BadRunDoc =>
              /\ Len(result.issues) = 1
              /\ result.issues[1].type = "terminator_inconsistency"
              /\ result.issues[1].terminators = <<<<",">>, <<";">>, <<>>>>

\* The items of run sit at consecutive paragraph indices that end at index
\* last, are non-blank non-heading paragraphs with a marker of one style,
\* and carry one section label, that of the nearest preceding heading
IsContiguousRun(run, last) ==
    \A k \in 1..Len(run) :
        LET i == run[k].paragraph_index
            p == paragraphs[i + 1]
        IN  /\ i = last - Len(run) + k
            /\ ~IsHeading(p)
            /\ Strip(p.text) # <<>>
            /\ run[k].text = p.text
            /\ DetectTextListPattern(p.text) # NoItem
            /\ DetectTextListPattern(p.text).style = run[k].style
            /\ run[k].style = run[1].style
            /\ run[k].section = run[1].section
            /\ run[k].section = NearestHeadingLabel(paragraphs, i)

\* C20: at every step of the enumeration scan the items of the current run
\* have one marker style, sit at consecutive paragraph indices (the last one
\* directly before the scan position), are non-blank non-heading paragraphs
\* and carry one section label; the same holds for every run handed to
\* flush(), so no run spans a heading, a blank paragraph, a non-list
\* paragraph or a change of marker style.
C20_RunIsContiguousSameStyle ==
    /\ IsContiguousRun(current_run, idx - 1)
    /\ \A n \in 1..Len(flush_log) :
          LET run == flush_log[n].run
          IN  run # <<>> =>
                  IsContiguousRun(run, run[Len(run)].paragraph_index)

\* the scan has passed an item of style (x) and then two items of style x):
\* the current run holds the two, the first item was flushed alone
C20_Witness ==
    /\ pc = "enum"
    /\ idx = 3
    /\ Len(current_run) = 2
    /\ current_run[1].paragraph_index = 1
    /\ current_run[1].style = "x)"
    /\ DetectTextListPattern(paragraphs[1].text).style = "(x)"
    /\ Len(flush_log) = 1
    /\ Len(flush_log[1].run) = 1

\* The paragraph at the scan position is a non-heading paragraph with an
\* enumeration marker whose style is not that of the run in progress
StyleBreakAhead ==
    /\ pc = "enum"
    /\ idx < Len(paragraphs)
    /\ current_run # <<>>
    /\ ~IsHeading(paragraphs[idx + 1])
    /\ DetectTextListPattern(paragraphs[idx + 1].text) # NoItem
    /\ DetectTextListPattern(paragraphs[idx + 1].text).style
          # current_run[Len(current_run)].style

\* C21: when the paragraph at the scan position matches an enumeration
\* marker whose style differs from the style of the run in progress, the
\* step validates the run in progress without that paragraph (one flush()
\* call on exactly the old run, its issues appended), and afterwards the
\* current run is that paragraph alone: neither dropped nor appended to the
\* old run.
C21_StyleChangeRestartsRun ==
    [][StyleBreakAhead =>
          /\ flush_log' = Append(flush_log, FlushCall(current_run))
          /\ \A k \in 1..Len(current_run) :
                current_run[k].paragraph_index < idx
          /\ issues' = issues \o Flush(current_run)
          /\ Len(current_run') = 1
          /\ current_run'[1].paragraph_index = idx
          /\ current_run'[1].text = paragraphs[idx + 1].text
          /\ current_run'[1].style
                = DetectTextListPattern(paragraphs[idx + 1].text).style
          /\ current_run'[1].section = current_section
          /\ idx' = idx + 1]_vars

\* two items of style x) were flushed as one run when an item of style (x)
\* arrived, and that item is now the whole current run
C21_Witness ==
    /\ pc = "enum"
    /\ idx = 3
    /\ Len(flush_log) = 1
    /\ Len(flush_log[1].run) = 2
    /\ flush_log[1].run[2].style = "x)"
    /\ flush_log[1].run[2].paragraph_index = 1
    /\ Len(current_run) = 1
    /\ current_run[1].style = "(x)"
    /\ current_run[1].paragraph_index = 2

\* The marker style of each paragraph index, "none" for a heading and for a
\* paragraph without a marker
ItemStyles(paras) ==
    [i \in 0..(Len(paras) - 1) |->
        IF IsHeading(paras[i + 1]) THEN "none"
        ELSE DetectTextListPattern(paras[i + 1].text).style]

\* Indices lo..hi hold items of one marker style, and the paragraphs on
\* either side (if any) do not continue them
IsMaximalRun(styles, lo, hi) ==
    /\ lo <= hi
    /\ \A i \in lo..hi : styles[i] # "none" /\ styles[i] = styles[lo]
    /\ (lo - 1) \in DOMAIN styles => styles[lo - 1] # styles[lo]
    /\ (hi + 1) \in DOMAIN styles => styles[hi + 1] # styles[lo]

MaximalRuns(paras) ==
    LET styles == ItemStyles(paras)
    IN  {r \in (DOMAIN styles) \X (DOMAIN styles) :
            IsMaximalRun(styles, r[1], r[2])}

\* The maximal runs whose ending event (the paragraph after them, or the end
\* of the document) the scan has handled
EndedRuns ==
    {r \in MaximalRuns(paragraphs) : r[2] + 1 < idx \/ pc = "done"}

\* The flush() calls made on a non-empty run, in call order
FlushedRuns == SelectSeq(flush_log, LAMBDA c : c.run # <<>>)

\* The items of the maximal run r, as far as their texts go
TextsOfRun(r) ==
    [k \in 1..(r[2] - r[1] + 1) |-> [text |-> paragraphs[r[1] + k].text]]

C23_IssueAtFirstItemUnderLastHeading ==
    LET runs == MaximalRuns(paragraphs)
        reported == IF pc = "done" THEN result.issues ELSE issues
    IN  \A n \in 1..Len(reported) :
            reported[n].type = "terminator_inconsistency" =>
                /\ \E r \in runs : r[1] = reported[n].paragraph_index
                /\ reported[n].section
                      = NearestHeadingLabel(paragraphs, reported[n].paragraph_index)

\* an article heading, a sub-heading, then a run of three with an issue: the
\* issue names the sub-heading's trimmed text
C23_Witness ==
    /\ pc = "done"
    /\ Len(paragraphs) = 5
    /\ DetectHeadingLevel(paragraphs[1]) = 1
    /\ DetectHeadingLevel(paragraphs[2]) = 2
    /\ paragraphs[2].text # Strip(paragraphs[2].text)
    /\ result.issue_count = 1
    /\ result.issues[1].type = "terminator_inconsistency"
    /\ result.issues[1].paragraph_index = 2
    /\ result.issues[1].section = Strip(paragraphs[2].text)
    /\ result.issues[1].section # Strip(paragraphs[1].text)

(***************************************************************************)
(* checks.py: reference extraction and validation                          *)
(***************************************************************************)
Digit == RChar(Digits)

\* \d+(?:\.\d+)*
DottedNumber ==
    RCat(<<RRep(Digit, 1, Unbounded),
           RRep(RCat(<<RChar({"."}), RRep(Digit, 1, Unbounded)>>), 0, Unbounded)>>)

\* _RE_CL_ABBR = re.compile(r'\bc^l\.\s*(\d+(?:\.\d+)*)\b')
RE_CL_ABBR ==
    RCat(<<RWordB, RLit(<<"c^", "l", ".">>),
           RRep(RChar(WhitespaceChars), 0, Unbounded),
           RGroup(DottedNumber), RWordB>>)

\* _RE_CLANEK = re.compile(r'\bc^la'nk\w{0,3}\s+(\d+(?:\.\d+)*)\b', re.IGNORECASE)
RE_CLANEK ==
    RCat(<<RWordB, RLit(<<"c^", "l", "a'", "n", "k">>),
           RRep(RChar(WordChars), 0, 3),
           RRep(RChar(WhitespaceChars), 1, Unbounded),
           RGroup(DottedNumber), RWordB>>)

\* _RE_PRILOHA = re.compile(r'\bpr^i'lo\w{1,4}\s+c^\.\s*(\d+)\b', re.IGNORECASE)
RE_PRILOHA ==
    RCat(<<RWordB, RLit(<<"p", "r^", "i'", "l", "o">>),
           RRep(RChar(WordChars), 1, 4),
           RRep(RChar(WhitespaceChars), 1, Unbounded),
           RLit(<<"c^", ".">>),
           RRep(RChar(WhitespaceChars), 0, Unbounded),
           RGroup(RRep(Digit, 1, Unbounded)), RWordB>>)

\* _RE_PARA_LAW = re.compile(r'SECT\s*(\d+\w*)\b')
RE_PARA_LAW ==
    RCat(<<RChar({"SECT"}),
           RRep(RChar(WhitespaceChars), 0, Unbounded),
           RGroup(RCat(<<RRep(Digit, 1, Unbounded),
                         RRep(RChar(WordChars), 0, Unbounded)>>)),
           RWordB>>)

\* a heading pattern that takes the whole word in either case
RE_H_CLANEK_ANY_CASE ==
    RCat(<<RBol, RChar({"C^", "c^"}), RChar({"L", "l"}), RChar({"A'", "a'"}),
           RChar({"N", "n"}), RChar({"E", "e"}), RChar({"K", "k"}),
           RRep(RChar(WhitespaceChars), 1, Unbounded),
           RGroup(RRep(Digit, 1, Unbounded)), RWordB>>)

\* _RE_H_CLANEK = re.compile(r'^[C^c^]la'nek\s+(\d+)\b')
RE_H_CLANEK ==
    RCat(<<RBol, RChar({"C^", "c^"}), RLit(<<"l", "a'", "n", "e", "k">>),
           RRep(RChar(WhitespaceChars), 1, Unbounded),
           RGroup(RRep(Digit, 1, Unbounded)), RWordB>>)

\* _RE_H_PRILOHA = re.compile(r'^[Pp]r^i'loha\s+c^\.\s*(\d+)\b')
RE_H_PRILOHA ==
    RCat(<<RBol, RChar({"P", "p"}), RLit(<<"r^", "i'", "l", "o", "h", "a">>),
           RRep(RChar(WhitespaceChars), 1, Unbounded),
           RLit(<<"c^", ".">>),
           RRep(RChar(WhitespaceChars), 0, Unbounded),
           RGroup(RRep(Digit, 1, Unbounded)), RWordB>>)

\* the values of a reference's "type"
TypeArticle == "c^la'nek"
TypeAnnex == "pr^i'loha"
TypeStatute == "SECT"
TypeFieldCode == "field_code"

\* _extract_field_codes, lines 326-354: the runs of one paragraph from the
\* k-th child on, with the scanner's state and buffers
RECURSIVE FieldScan(_, _, _, _, _, _)
FieldScan(runs, k, state, instr_buf, display_buf, p_idx) ==
    IF k > Len(runs) THEN <<>>
    ELSE LET el == runs[k]
             instr == Strip(Join(instr_buf))
             kept == \/ StartsWith(LStrip(Upper(instr)), <<"R", "E", "F", " ">>)
                     \/ StartsWith(LStrip(Upper(instr)),
                                   <<"P", "A", "G", "E", "R", "E", "F", " ">>)
         IN  IF el.tag = "fldChar" /\ el.val = "begin"
             THEN FieldScan(runs, k + 1, "instr", <<>>, <<>>, p_idx)
             ELSE IF el.tag = "fldChar" /\ el.val = "separate"
             THEN FieldScan(runs, k + 1, "display", instr_buf, display_buf, p_idx)
             ELSE IF el.tag = "fldChar" /\ el.val = "end"
             THEN (IF kept
                   THEN <<[instr |-> instr,
                           display_text |-> Strip(Join(display_buf)),
                           paragraph_index |-> p_idx]>>
                   ELSE <<>>)
                  \o FieldScan(runs, k + 1, "none", instr_buf, display_buf, p_idx)
             ELSE IF el.tag = "instrText" /\ state = "instr"
             THEN FieldScan(runs, k + 1, state, Append(instr_buf, el.text),
                            display_buf, p_idx)
             ELSE IF el.tag = "t" /\ state = "display"
             THEN FieldScan(runs, k + 1, state, instr_buf,
                            Append(display_buf, el.text), p_idx)
             ELSE FieldScan(runs, k + 1, state, instr_buf, display_buf, p_idx)

\* _extract_field_codes
ExtractFieldCodes(paras) ==
    Join([k \in 1..Len(paras) |->
            FieldScan(paras[k].runs, 1, "none", <<>>, <<>>, k - 1)])

\* _extract_text_references, lines 377-385: _add for the matches of one pattern
RefsOf(re, icase, text, ref_type, prefix, section, i) ==
    LET ms == FindIter(re, text, icase)
    IN  [k \in 1..Len(ms) |->
            [text |-> prefix \o Group1(text, ms[k]),
             raw |-> Strip(Group0(text, ms[k])),
             type |-> ref_type,
             target |-> Group1(text, ms[k]),
             section |-> section,
             paragraph_index |-> i]]

\* _extract_text_references, lines 387-397: the references of one paragraph
ParagraphRefs(text, section, i) ==
    RefsOf(RE_CL_ABBR, FALSE, text, TypeArticle,
           <<"c^", "l", "a'", "n", "e", "k", " ">>, section, i)
    \o RefsOf(RE_CLANEK, TRUE, text, TypeArticle,
              <<"c^", "l", "a'", "n", "e", "k", " ">>, section, i)
    \o RefsOf(RE_PRILOHA, TRUE, text, TypeAnnex,
              <<"p", "r^", "i'", "l", "o", "h", "a", " ", "c^", ".", " ">>,
              section, i)
    \o RefsOf(RE_PARA_LAW, FALSE, text, TypeStatute,
              <<"SECT", " ">>, section, i)

\* a label that keeps the heading's text untrimmed
RefSectionUntrimmed(section, para) == para.text

\* _extract_text_references, lines 369-372: the section label after a heading
RefSectionAfterHeading(section, para) == Strip(para.text)

\* _extract_text_references, lines 367-397: from paragraph index i on, with
\* the section the scan carries
RECURSIVE TextRefsFrom(_, _, _)
TextRefsFrom(paras, i, section) ==
    IF i >= Len(paras) THEN <<>>
    ELSE LET para == paras[i + 1]
         IN  IF DetectHeadingLevel(para) # NoLevel
             THEN TextRefsFrom(paras, i + 1, RefSectionAfterHeading(section, para))
             ELSE IF Strip(para.text) = <<>>
             THEN TextRefsFrom(paras, i + 1, section)
             ELSE ParagraphRefs(para.text, section, i)
                  \o TextRefsFrom(paras, i + 1, section)

\* _extract_text_references
ExtractTextReferences(paras) == TextRefsFrom(paras, 0, None)

\* _get_bookmarks
GetBookmarks(paras) ==
    Join([k \in 1..Len(paras) |->
            LET names == paras[k].bookmarks
                at == SelectIdx(Len(names),
                        {j \in 1..Len(names) : names[j] # None /\ names[j] # <<>>})
            IN  [j \in 1..Len(at) |-> names[at[j]]]])

\* extract_and_validate_references, lines 468-472
RefHeadings(paras) ==
    LET at == SelectIdx(Len(paras), {k \in 1..Len(paras) : IsHeading(paras[k])})
    IN  [j \in 1..Len(at) |->
            [level |-> DetectHeadingLevel(paras[at[j]]),
             text |-> Strip(paras[at[j]].text)]]

\* _validate_references, lines 421-430: article_nums
ArticleNums(hs) ==
    {Group1(hs[k].text, ReMatch(RE_H_CLANEK, hs[k].text, FALSE)) :
        k \in {j \in 1..Len(hs) : ReMatch(RE_H_CLANEK, hs[j].text, FALSE) # NoMatch}}

\* _validate_references, lines 421-430: annex_nums
AnnexNums(hs) ==
    {Group1(hs[k].text, ReMatch(RE_H_PRILOHA, hs[k].text, FALSE)) :
        k \in {j \in 1..Len(hs) :
                  /\ ReMatch(RE_H_CLANEK, hs[j].text, FALSE) = NoMatch
                  /\ ReMatch(RE_H_PRILOHA, hs[j].text, FALSE) # NoMatch}}

\* a validation that compares the whole dotted target of an article
ClassifyRefNoBase(ref, article_nums, annex_nums) ==
    IF ref.type = TypeArticle
    THEN ref.target \in article_nums
    ELSE IF ref.type = TypeAnnex
    THEN ref.target \in annex_nums
    ELSE TRUE

\* a validation that looks an annex up among the articles
ClassifyRefAnnexAsArticle(ref, article_nums, annex_nums) ==
    IF ref.type = TypeArticle
    THEN SplitDot(ref.target)[1] \in article_nums
    ELSE IF ref.type = TypeAnnex
    THEN ref.target \in article_nums
    ELSE TRUE

\* a validation that also looks statute paragraphs up among the articles
ClassifyRefStatuteChecked(ref, article_nums, annex_nums) ==
    IF ref.type = TypeArticle
    THEN SplitDot(ref.target)[1] \in article_nums
    ELSE IF ref.type = TypeAnnex
    THEN ref.target \in annex_nums
    ELSE ref.target \in article_nums

\* _validate_references, lines 436-442: whether ref goes to valid
ClassifyRef(ref, article_nums, annex_nums) ==
    IF ref.type = TypeArticle
    THEN SplitDot(ref.target)[1] \in article_nums
    ELSE IF ref.type = TypeAnnex
    THEN ref.target \in annex_nums
    ELSE TRUE

\* a split whose valid list keeps every reference
ValidateReferencesKeepAll(refs, hs) ==
    LET article_nums == ArticleNums(hs)
        annex_nums == AnnexNums(hs)
        ok == {k \in 1..Len(refs) : ClassifyRef(refs[k], article_nums, annex_nums)}
        bad == SelectIdx(Len(refs), (1..Len(refs)) \ ok)
    IN  [valid |-> refs,
         invalid |-> [k \in 1..Len(bad) |-> refs[bad[k]]]]

\* _validate_references: (valid, invalid)
ValidateReferences(refs, hs) ==
    LET article_nums == ArticleNums(hs)
        annex_nums == AnnexNums(hs)
        ok == {k \in 1..Len(refs) : ClassifyRef(refs[k], article_nums, annex_nums)}
        good == SelectIdx(Len(refs), ok)
        bad == SelectIdx(Len(refs), (1..Len(refs)) \ ok)
    IN  [valid |-> [k \in 1..Len(good) |-> refs[good[k]]],
         invalid |-> [k \in 1..Len(bad) |-> refs[bad[k]]]]

\* a violation list that takes every free-text reference
FieldCodeViolationsAll(text_refs) == text_refs

\* extract_and_validate_references, lines 479-481
FieldCodeViolations(text_refs) ==
    LET at == SelectIdx(Len(text_refs),
                  {k \in 1..Len(text_refs) :
                      text_refs[k].type \in {TypeArticle, TypeAnnex}})
    IN  [k \in 1..Len(at) |-> text_refs[at[k]]]

\* extract_and_validate_references, line 485: {**r, "type": "field_code"}
AsFieldCodeRef(r) ==
    [instr |-> r.instr, display_text |-> r.display_text,
     paragraph_index |-> r.paragraph_index, type |-> TypeFieldCode]

\* extract_and_validate_references, lines 465-491
ExtractAndValidateReferences(paras) ==
    LET hs == RefHeadings(paras)
        field_code_refs == ExtractFieldCodes(paras)
        text_refs == ExtractTextReferences(paras)
        bookmarks == GetBookmarks(paras)
        split == ValidateReferences(text_refs, hs)
    IN  [kind |-> "references",
         all_refs |-> text_refs
                      \o [k \in 1..Len(field_code_refs) |->
                             AsFieldCodeRef(field_code_refs[k])],
         valid |-> split.valid,
         invalid |-> split.invalid,
         field_code_refs |-> field_code_refs,
         field_code_violations |-> FieldCodeViolations(text_refs),
         bookmarks |-> bookmarks]

MaxRefParas == 3

WordArticle == <<"C^", "l", "a'", "n", "e", "k">>
WordAnnex == <<"P", "r^", "i'", "l", "o", "h", "a", " ", "c^", ".">>

HeadingArticle(number) == HeadingPara("1", WordArticle \o <<" ">> \o number)
HeadingAnnex(number) == HeadingPara("1", WordAnnex \o <<" ">> \o number)

\* "dle c^la'nku 12"
TextArticle12 ==
    <<"d", "l", "e", " ", "c^", "l", "a'", "n", "k", "u", " ", "1", "2">>

\* "c^l. 12.1 a SECT 12"
TextAbbr12_1 ==
    <<"c^", "l", ".", " ", "1", "2", ".", "1", " ", "a", " ", "SECT", " ", "1", "2">>

\* "viz pr^i'loha c^. 5"
TextAnnex5 ==
    <<"v", "i", "z", " ", "p", "r^", "i'", "l", "o", "h", "a", " ", "c^", ".", " ", "5">>

\* "viz " and a REF field that displays "c^l. 6"
FieldPara ==
    Paragraph(StyleNormal, None, FALSE,
              <<T(<<"v", "i", "z", " ">>), FldChar("begin"),
                InstrText(<<"R", "E", "F", " ", "a">>), FldChar("separate"),
                T(<<"c^", "l", ".", " ", "6">>), FldChar("end")>>,
              <<>>)

RefParas ==
    {HeadingArticle(<<"1", "2">>), HeadingArticle(<<"1", "2", "3">>),
     HeadingArticle(<<"6">>),
     HeadingPara("2", <<"c^", "l", "a'", "n", "e", "k", "\t", "1", "2", ":">>),
     HeadingAnnex(<<"5">>), HeadingAnnex(<<"5", "5">>),
     Plain(TextArticle12), Plain(TextAbbr12_1), Plain(TextAnnex5), FieldPara}

\* article headings 2 and 6, annex headings 1 to 3, a paragraph citing
\* article 12 and a paragraph citing annex 5
ScenarioDoc ==
    <<HeadingArticle(<<"2">>), HeadingArticle(<<"6">>),
      HeadingAnnex(<<"1">>), HeadingAnnex(<<"2">>), HeadingAnnex(<<"3">>),
      Plain(TextArticle12), Plain(TextAnnex5)>>

InitRefs ==
    /\ paragraphs \in SeqsUpTo(RefParas, MaxRefParas) \cup {ScenarioDoc}
    /\ pc = "refs"
    /\ idx = 0
    /\ issues = <<>>
    /\ result = NoResult
    /\ IdleTree /\ IdleWhitespace /\ IdleEnum /\ IdleSession

\* extract_and_validate_references, lines 465-491
RefsCall ==
    /\ pc = "refs"
    /\ result' = ExtractAndValidateReferences(paragraphs)
    /\ pc' = "done"
    /\ UNCHANGED <<fs, call, earlier>>
    /\ UNCHANGED <<paragraphs, idx, headings, nodes, root, stack, issues,
                   prev_blank, current_run, current_section, flush_log>>

NextRefs == RefsCall

SpecRefs == InitRefs /\ [][NextRefs]_vars

\* article headings in capitals, in lower case and at several levels, with
\* paragraphs that cite the articles
MaxArticleParas == 3

\* "c^l. 6 a c^la'nku 12"
TextAbbr6Article12 ==
    <<"c^", "l", ".", " ", "6", " ", "a", " ">> \o SubSeq(TextArticle12, 5, 13)

ArticleParas ==
    {HeadingPara("1", <<"C^", "L", "A'", "N", "E", "K", " ", "1", "2">>),
     HeadingPara("1", <<"C^", "l", "a'", "n", "e", "k", " ", "1", "2">>),
     HeadingPara("2", <<"c^", "l", "a'", "n", "e", "k", " ", "6">>),
     TitlePara(<<"C^", "l", "a'", "n", "E", "K", " ", "6">>),
     Plain(TextArticle12), Plain(TextAbbr6Article12)}

InitArticleHeadings ==
    /\ paragraphs \in SeqsUpTo(ArticleParas, MaxArticleParas)
    /\ pc = "refs"
    /\ idx = 0
    /\ issues = <<>>
    /\ result = NoResult
    /\ IdleTree /\ IdleWhitespace /\ IdleEnum /\ IdleSession

SpecArticleHeadings == InitArticleHeadings /\ [][NextRefs]_vars

\* the three checkers on one palette of documents: headings of two levels
\* (one with a leading space), a list item that cites an article and ends
\* with a space, a plain item and a blank paragraph
MaxAttributionParas == 3

\* "a) c^l. 6, "
ItemCitesArticle6 ==
    <<"a", ")", " ", "c^", "l", ".", " ", "6", ",", " ">>

AttributionParas ==
    {HeadingPara("1", TextA), HeadingPara("2", <<" ", "B">>),
     Plain(ItemCitesArticle6), Plain(ItemB_Semi), Plain(<<>>)}

InitAttribution ==
    /\ paragraphs \in SeqsUpTo(AttributionParas, MaxAttributionParas)
    /\ pc \in {"ws", "enum", "refs"}
    /\ idx = 0
    /\ issues = <<>>
    /\ result = NoResult
    /\ IdleTree /\ IdleWhitespace /\ IdleEnum /\ IdleSession

NextAttribution == NextWhitespace \/ NextEnum \/ NextRefs

SpecAttribution == InitAttribution /\ [][NextAttribution]_vars

\* one paragraph whose runs are any sequence of field markers, instruction
\* texts and display texts
MaxFieldRuns == 4

FieldElems ==
    {FldChar("begin"), FldChar("separate"), FldChar("end"),
     InstrText(<<"R", "E", "F", " ", "a">>), InstrText(<<"x">>),
     T(<<"d">>)}

InitFieldCodes ==
    /\ \E runs \in SeqsUpTo(FieldElems, MaxFieldRuns) :
          paragraphs = <<Paragraph(StyleNormal, None, FALSE, runs, <<>>)>>
    /\ pc = "refs"
    /\ idx = 0
    /\ issues = <<>>
    /\ result = NoResult
    /\ IdleTree /\ IdleWhitespace /\ IdleEnum /\ IdleSession

SpecFieldCodes == InitFieldCodes /\ [][NextRefs]_vars

(***************************************************************************)
(* Properties of extract_and_validate_references                           *)
(***************************************************************************)
\* The free-text references of the result: all_refs without the field codes
ResultTextRefs ==
    LET all == result.all_refs
        at == SelectIdx(Len(all), {k \in 1..Len(all) : all[k].type # TypeFieldCode})
    IN  [k \in 1..Len(at) |-> all[at[k]]]

\* The trimmed texts of the document's headings
HeadingTexts ==
    {Strip(paragraphs[k].text) : k \in {j \in 1..Len(paragraphs) : IsHeading(paragraphs[j])}}

\* text has the whole number at offset o: the digits of number, then the end
\* of the text or a character that is no letter, digit or underscore
NumberAt(text, o, number) ==
    /\ Len(text) >= o + Len(number)
    /\ SubSeq(text, o + 1, o + Len(number)) = number
    /\ (Len(text) = o + Len(number) \/ text[o + Len(number) + 1] \notin WordChars)

\* text is the word for Article (first letter of either case), whitespace,
\* then the whole number
NamesArticle(text, number) ==
    \E w \in 1..Len(text) :
        /\ Len(text) >= 6 + w
        /\ text[1] \in {"C^", "c^"}
        /\ SubSeq(text, 2, 6) = <<"l", "a'", "n", "e", "k">>
        /\ \A j \in 7..(6 + w) : text[j] \in WhitespaceChars
        /\ NumberAt(text, 6 + w, number)

\* text is the word for Annex (first letter of either case), whitespace, the
\* abbreviation for "no.", optional whitespace, then the whole number
NamesAnnex(text, number) ==
    \E w \in 1..Len(text) : \E v \in 0..Len(text) :
        /\ Len(text) >= 9 + w + v
        /\ text[1] \in {"P", "p"}
        /\ SubSeq(text, 2, 7) = <<"r^", "i'", "l", "o", "h", "a">>
        /\ \A j \in 8..(7 + w) : text[j] \in WhitespaceChars
        /\ SubSeq(text, 8 + w, 9 + w) = <<"c^", ".">>
        /\ \A j \in (10 + w)..(9 + w + v) : text[j] \in WhitespaceChars
        /\ NumberAt(text, 9 + w + v, number)

\* The target without its sub-number: what precedes the first dot
BaseOf(target) ==
    LET dots == {k \in 1..Len(target) : target[k] = "."}
    IN  IF dots = {} THEN target
        ELSE SubSeq(target, 1, (CHOOSE k \in dots : \A m \in dots : k <= m) - 1)

InValidOnly(r) == r \in Elems(result.valid) /\ r \notin Elems(result.invalid)

InInvalidOnly(r) == r \in Elems(result.invalid) /\ r \notin Elems(result.valid)

\* C5 as amended: an article reference with target N (a sub-number stripped)
\* is in valid iff some heading's trimmed text is the word "C^la'nek" or
\* "c^la'nek", whitespace, then N as a whole number (followed by the end of
\* the text or by a character that is no letter, digit or underscore), and
\* in invalid otherwise, wherever the heading stands in the document.
C5_ArticleValidIffHeadingNumber ==
    pc = "done" =>
        \A r \in Elems(ResultTextRefs) :
            r.type = TypeArticle =>
                IF \E h \in HeadingTexts : NamesArticle(h, BaseOf(r.target))
                THEN InValidOnly(r)
                ELSE InInvalidOnly(r)

\* a reference to 12.1 is valid by a heading for article 12 that follows the
\* referencing paragraph, and another article reference is invalid
C5_Witness ==
    /\ pc = "done"
    /\ \E r \in Elems(result.valid) :
          /\ r.type = TypeArticle
          /\ r.target = <<"1", "2", ".", "1">>
          /\ \E k \in 1..Len(paragraphs) :
                /\ k - 1 > r.paragraph_index
                /\ IsHeading(paragraphs[k])
                /\ NamesArticle(Strip(paragraphs[k].text), <<"1", "2">>)
    /\ \E r \in Elems(result.invalid) : r.type = TypeArticle

\* C5 as stated: valid iff some heading's text starts with "C^la'nek N"
C5_AsStated ==
    pc = "done" =>
        \A r \in Elems(ResultTextRefs) :
            r.type = TypeArticle =>
                IF \E h \in HeadingTexts :
                      StartsWith(h, WordArticle \o <<" ">> \o BaseOf(r.target))
                THEN InValidOnly(r)
                ELSE InInvalidOnly(r)

\* C6: an annex reference is in valid iff its target equals the number of a
\* heading "Pr^i'loha c^. <N>", else in invalid; with article headings 2 and 6
\* and annex headings 1 to 3 only, citing article 12 gives exactly one
\* invalid entry with target "12" and citing annex 5 an invalid annex entry
\* with target "5".
C6_AnnexValidIffHeadingNumber ==
    pc = "done" =>
        /\ \A r \in Elems(ResultTextRefs) :
              r.type = TypeAnnex =>
                  IF \E h \in HeadingTexts : NamesAnnex(h, r.target)
                  THEN InValidOnly(r)
                  ELSE InInvalidOnly(r)
        /\ paragraphs = ScenarioDoc =>
              /\ Cardinality({k \in 1..Len(result.invalid) :
                                  result.invalid[k].target = <<"1", "2">>}) = 1
              /\ \E k \in 1..Len(result.invalid) :
                    /\ result.invalid[k].type = TypeArticle
                    /\ result.invalid[k].target = <<"1", "2">>
                    /\ result.invalid[k].paragraph_index = 5
              /\ \E k \in 1..Len(result.invalid) :
                    /\ result.invalid[k].type = TypeAnnex
                    /\ result.invalid[k].target = <<"5">>
                    /\ result.invalid[k].paragraph_index = 6

\* the scenario document was checked and both citations are invalid
C6_Witness ==
    /\ pc = "done"
    /\ paragraphs = ScenarioDoc
    /\ Len(result.invalid) = 2
    /\ result.valid = <<>>

\* C7: field_code_violations holds every free-text reference of kind
\* article or annex, valid or invalid, in order, and nothing else: no
\* statute-paragraph reference and no field-code reference.
C7_ViolationsAreArticleAndAnnexRefs ==
    pc = "done" =>
        LET fcv == result.field_code_violations
            wanted == SelectIdx(Len(ResultTextRefs),
                          {k \in 1..Len(ResultTextRefs) :
                              ResultTextRefs[k].type \in {TypeArticle, TypeAnnex}})
        IN  /\ fcv = [k \in 1..Len(wanted) |-> ResultTextRefs[wanted[k]]]
            /\ \A r \in Elems(result.valid) \cup Elems(result.invalid) :
                  r.type \in {TypeArticle, TypeAnnex} => r \in Elems(fcv)
            /\ \A v \in Elems(fcv) :
                  /\ v.type # TypeStatute
                  /\ v.type # TypeFieldCode
                  /\ v \notin Elems(result.field_code_refs)
                  /\ v \in Elems(result.all_refs)

\* a valid and an invalid article reference are both reported while a
\* statute-paragraph reference and a field-code reference exist
C7_Witness ==
    /\ pc = "done"
    /\ \E v \in Elems(result.field_code_violations) : v \in Elems(result.valid)
    /\ \E v \in Elems(result.field_code_violations) : v \in Elems(result.invalid)
    /\ \E r \in Elems(result.all_refs) : r.type = TypeStatute
    /\ result.field_code_refs # <<>>

\* C8: every statute-paragraph reference is in valid and none is in invalid.
C8_StatuteRefsAlwaysValid ==
    pc = "done" =>
        /\ \A r \in Elems(ResultTextRefs) :
              r.type = TypeStatute => InValidOnly(r)
        /\ \A v \in Elems(result.invalid) : v.type # TypeStatute

\* a reference to statute paragraph 12 is valid in a document that has
\* headings but none for an article 12, next to an invalid reference
C8_Witness ==
    /\ pc = "done"
    /\ \E r \in Elems(result.valid) :
          r.type = TypeStatute /\ r.target = <<"1", "2">>
    /\ HeadingTexts # {}
    /\ \A h \in HeadingTexts : ~NamesArticle(h, <<"1", "2">>)
    /\ result.invalid # <<>>

\* The members of sequence s at the indices in S, in order
Restrict(s, S) ==
    LET at == SelectIdx(Len(s), S \cap (1..Len(s)))
    IN  [k \in 1..Len(at) |-> s[at[k]]]

\* C26: in the returned value, all_refs is the free-text references followed
\* by the field-code references (each field_code_refs entry with type
\* "field_code"), so it has len(valid) + len(invalid) + len(field_code_refs)
\* entries; valid and invalid split the free-text references: each is in
\* exactly one of the two, both lists keep the extraction order, and neither
\* holds a field-code reference.
C26_ValidInvalidPartition ==
    (pc = "done" /\ result.kind = "references") =>
        LET n == Len(result.all_refs) - Len(result.field_code_refs)
            text_refs == SubSeq(result.all_refs, 1, n)
            in_valid == {k \in 1..n : text_refs[k] \in Elems(result.valid)}
        IN  /\ n >= 0
            /\ Len(result.all_refs)
                  = Len(result.valid) + Len(result.invalid)
                      + Len(result.field_code_refs)
            /\ \A k \in 1..n : text_refs[k].type # TypeFieldCode
            /\ \A k \in 1..Len(result.field_code_refs) :
                  LET r == result.all_refs[n + k]
                      f == result.field_code_refs[k]
                  IN  /\ r.type = TypeFieldCode
                      /\ r.instr = f.instr
                      /\ r.display_text = f.display_text
                      /\ r.paragraph_index = f.paragraph_index
            /\ result.valid = Restrict(text_refs, in_valid)
            /\ result.invalid = Restrict(text_refs, (1..n) \ in_valid)
            /\ Elems(result.valid) \cap Elems(result.invalid) = {}
            /\ \A r \in Elems(result.valid) \cup Elems(result.invalid) :
                  r.type # TypeFieldCode

\* a result with a valid reference, an invalid one after it, a statute
\* reference and a field-code reference
C26_Witness ==
    /\ pc = "done" /\ result.kind = "references"
    /\ Len(result.field_code_refs) = 1
    /\ Len(result.valid) >= 2
    /\ Len(result.invalid) >= 1
    /\ \E k \in 1..Len(result.valid) : result.valid[k].type = TypeArticle
    /\ \E k \in 1..Len(result.valid) : result.valid[k].type = TypeStatute
    /\ Len(result.all_refs) >= 4

\* The positions of the fldChar markers of one type among runs
MarkersAt(runs, type) ==
    {k \in 1..Len(runs) : runs[k].tag = "fldChar" /\ runs[k].val = type}

\* The texts of the elements of one tag strictly between positions a and b,
\* joined and trimmed
TextBetween(runs, tag, a, b) ==
    LET at == SelectIdx(Len(runs),
                  {k \in (a + 1)..(b - 1) : runs[k].tag = tag})
    IN  Strip(Join([j \in 1..Len(at) |-> runs[at[j]].text]))

\* Reference r comes from a triple of runs: a begin, then a separate, then
\* an end with no other marker between them, r's instruction being the
\* instruction text between begin and separate and r's display text the
\* text between separate and end
FromTriple(runs, r) ==
    \E b \in MarkersAt(runs, "begin") :
    \E sp \in MarkersAt(runs, "separate") :
    \E e \in MarkersAt(runs, "end") :
        /\ b < sp /\ sp < e
        /\ \A k \in (b + 1)..(e - 1) : k # sp => runs[k].tag # "fldChar"
        /\ r.instr = TextBetween(runs, "instrText", b, sp)
        /\ r.display_text = TextBetween(runs, "t", sp, e)

\* C27 as stated: every field-code reference of a paragraph comes from one
\* begin / separate / end triple of that paragraph and its instruction
\* starts with "REF " or "PAGEREF "; the references of a paragraph are no
\* more than its begin markers, and a paragraph whose end markers all come
\* before any begin yields none.
C27_AsStated ==
    (pc = "done" /\ result.kind = "references") =>
        /\ \A k \in 1..Len(result.field_code_refs) :
              LET r == result.field_code_refs[k]
                  runs == paragraphs[r.paragraph_index + 1].runs
              IN  /\ FromTriple(runs, r)
                  /\ \/ StartsWith(r.instr, <<"R", "E", "F", " ">>)
                     \/ StartsWith(r.instr,
                                   <<"P", "A", "G", "E", "R", "E", "F", " ">>)
        /\ \A i \in 1..Len(paragraphs) :
              Cardinality({k \in 1..Len(result.field_code_refs) :
                              result.field_code_refs[k].paragraph_index = i - 1})
                  <= Cardinality(MarkersAt(paragraphs[i].runs, "begin"))

\* The digit strings that occur in the trimmed texts of the headings
HeadingNumbers ==
    UNION {{SubSeq(t, a, b) : a, b \in 1..Len(t)} : t \in HeadingTexts}
        \cap {n \in UNION {[1..k -> Digits] : k \in 1..3} : TRUE}

\* The numbers N that some heading names through a predicate of (text, N)
NumbersNamed(Names(_, _)) ==
    {n \in HeadingNumbers : \E t \in HeadingTexts : Names(t, n)}

\* text names article number through the word for Article in any mix of
\* upper and lower case
NamesArticleAnyCase(text, number) == NamesArticle(Lower(text), number)

\* The article references of the result sit in valid when their base number
\* is in the set, in invalid when it is not
ArticleRefsFollow(set) ==
    \A r \in Elems(result.valid) \cup Elems(result.invalid) :
        r.type = TypeArticle =>
            /\ BaseOf(r.target) \in set => InValidOnly(r)
            /\ BaseOf(r.target) \notin set => InInvalidOnly(r)

\* C28 as amended: the article-number target set holds N exactly for the
\* headings of any level (title and sub-headings included) whose trimmed
\* text is "C^la'nek" or "c^la'nek" (only the first letter may be of either
\* case), whitespace, then N as a whole number; a heading in capitals names
\* no article, so a reference to its number is invalid unless another
\* heading names it.
C28_ArticleSetFromHeadings ==
    (pc = "done" /\ result.kind = "references") =>
        /\ ArticleNums(RefHeadings(paragraphs)) = NumbersNamed(NamesArticle)
        /\ ArticleRefsFollow(NumbersNamed(NamesArticle))

\* the only heading with number 12 is in capitals and the reference to
\* article 12 is invalid, while a lower-case level-2 heading makes the
\* reference to article 6 valid
C28_Witness ==
    /\ pc = "done" /\ result.kind = "references"
    /\ \E t \in HeadingTexts : NamesArticleAnyCase(t, <<"1", "2">>)
    /\ ~\E t \in HeadingTexts : NamesArticle(t, <<"1", "2">>)
    /\ \E k \in 1..Len(paragraphs) :
          /\ DetectHeadingLevel(paragraphs[k]) = 2
          /\ NamesArticle(Strip(paragraphs[k].text), <<"6">>)
    /\ \E r \in Elems(result.invalid) :
          r.type = TypeArticle /\ r.target = <<"1", "2">>
    /\ \E r \in Elems(result.valid) :
          r.type = TypeArticle /\ r.target = <<"6">>

\* C28 as stated: the set holds N for every heading whose text starts with
\* the word for Article, in any case, followed by N; so with a heading in
\* capitals the references to its number are valid.
C28_AsStated ==
    (pc = "done" /\ result.kind = "references") =>
        /\ ArticleNums(RefHeadings(paragraphs)) = NumbersNamed(NamesArticleAnyCase)
        /\ ArticleRefsFollow(NumbersNamed(NamesArticleAnyCase))

\* Every record of the sequence carries, as section, the label that
\* _find_parent_heading gives its paragraph index
SectionsScanBackward(records) ==
    \A k \in 1..Len(records) :
        records[k].section
            = FindParentHeading(paragraphs, records[k].paragraph_index)

\* C29: the label tracked forward equals the label _find_parent_heading
\* finds by scanning backward. In check_enumerations, when the scan reaches
\* a non-heading paragraph i the current section is
\* _find_parent_heading(paragraphs, i), and so is the section of every item
\* kept in a run and of every issue; in extract_and_validate_references
\* every free-text reference carries _find_parent_heading of its paragraph;
\* the whitespace issues carry that label by construction.
C29_ForwardLabelIsBackwardLabel ==
    /\ pc = "enum" =>
          /\ (idx < Len(paragraphs) /\ ~IsHeading(paragraphs[idx + 1])) =>
                current_section = FindParentHeading(paragraphs, idx)
          /\ SectionsScanBackward(current_run)
          /\ \A n \in 1..Len(flush_log) : SectionsScanBackward(flush_log[n].run)
          /\ SectionsScanBackward(issues)
    /\ pc = "ws" => SectionsScanBackward(issues)
    /\ (pc = "done" /\ result.kind \in {"enumerations", "whitespace"}) =>
          SectionsScanBackward(result.issues)
    /\ (pc = "done" /\ result.kind = "references") =>
          SectionsScanBackward(ResultTextRefs)

\* a reference found below a level-1 heading and a level-2 heading with a
\* leading space carries the level-2 heading's trimmed text
C29_Witness ==
    /\ pc = "done" /\ result.kind = "references"
    /\ Len(paragraphs) = 3
    /\ DetectHeadingLevel(paragraphs[1]) = 1
    /\ DetectHeadingLevel(paragraphs[2]) = 2
    /\ paragraphs[2].text # Strip(paragraphs[2].text)
    /\ Len(ResultTextRefs) = 1
    /\ ResultTextRefs[1].paragraph_index = 2
    /\ ResultTextRefs[1].section = Strip(paragraphs[2].text)

(***************************************************************************)
(* docx_parser.py: section spans, section content, sections summary        *)
(***************************************************************************)
\* a stop test that lets a heading of the same level stay in the span
SpanStopsStrict(lvl, heading_level) == lvl # NoLevel /\ lvl < heading_level

\* _section_paragraphs, line 93: lvl is not None and lvl <= heading_level
SpanStops(lvl, heading_level) == lvl # NoLevel /\ lvl <= heading_level

\* _section_paragraphs, lines 91-95: the loop from the 0-based index i on
RECURSIVE SectionScan(_, _, _)
SectionScan(paras, i, heading_level) ==
    IF i >= Len(paras) THEN <<>>
    ELSE IF SpanStops(DetectHeadingLevel(paras[i + 1]), heading_level) THEN <<>>
    ELSE <<paras[i + 1]>> \o SectionScan(paras, i + 1, heading_level)

\* _section_paragraphs (heading_idx >= 0)
SectionParagraphs(paras, heading_idx, heading_level) ==
    SectionScan(paras, heading_idx + 1, heading_level)

\* target_idx is None
NoIndex == 0 - 1

\* a match test that does not ask for a heading
TargetMatchesAnyParagraph(p, heading_text) == Strip(p.text) = heading_text

\* get_section_content, line 155
TargetMatches(p, heading_text) ==
    DetectHeadingLevel(p) # NoLevel /\ Strip(p.text) = heading_text

\* a search that keeps the last match
TargetIdxLast(paras, i, heading_text) ==
    LET hits == {k \in i..(Len(paras) - 1) : TargetMatches(paras[k + 1], heading_text)}
    IN  IF hits = {} THEN NoIndex ELSE CHOOSE k \in hits : \A m \in hits : m <= k

\* get_section_content, lines 153-158: the loop from the 0-based index i on,
\* left at the first match
RECURSIVE TargetIdx(_, _, _)
TargetIdx(paras, i, heading_text) ==
    IF i >= Len(paras) THEN NoIndex
    ELSE IF TargetMatches(paras[i + 1], heading_text) THEN i
    ELSE TargetIdx(paras, i + 1, heading_text)

\* f"Heading not found: {heading_text}" and the like: the fixed part is one
\* token, the argument follows it
ErrorText(prefix, text) == <<prefix>> \o text

HeadingNotFound(heading_text) ==
    [kind |-> "error", error |-> ErrorText("Heading not found: ", heading_text)]

\* get_section_content, lines 150-180
GetSectionContent(paras, heading_text) ==
    LET target_idx == TargetIdx(paras, 0, heading_text)
        target_level == DetectHeadingLevel(paras[target_idx + 1])
        section_pars == SectionParagraphs(paras, target_idx, target_level)
        subs == SelectIdx(Len(section_pars),
                    {k \in 1..Len(section_pars) : IsHeading(section_pars[k])})
    IN  IF target_idx = NoIndex THEN HeadingNotFound(heading_text)
        ELSE [kind |-> "section",
              heading |-> heading_text,
              level |-> target_level,
              content |-> JoinWith(<<"\n">>,
                              [k \in 1..Len(section_pars) |-> section_pars[k].text]),
              paragraph_count |-> Len(section_pars),
              subsections |-> [j \in 1..Len(subs) |-> Strip(section_pars[subs[j]].text)]]

PreviewWidth == 200

\* content[:200] plus the ellipsis (one character) when content is longer
Preview(content) ==
    IF Len(content) > PreviewWidth
    THEN SubSeq(content, 1, PreviewWidth) \o <<"ELLIPSIS">>
    ELSE content

\* hashlib.md5(content.encode("utf-8")).hexdigest(): a digest is equal for
\* equal contents and taken to differ for different contents
Md5Hex(content) == [md5_of |-> content]

\* get_all_sections_summary, lines 207-225: the entry of one heading
SectionEntry(paras, h) ==
    LET pars == SectionParagraphs(paras, h.paragraph_index, h.level)
        content == JoinWith(<<"\n">>, [k \in 1..Len(pars) |-> pars[k].text])
    IN  [heading |-> h.text,
         level |-> h.level,
         preview |-> Preview(content),
         content_hash |-> Md5Hex(content),
         paragraph_count |-> Len(pars)]

\* get_all_sections_summary, lines 199-227
GetAllSectionsSummary(paras) ==
    LET hs == FlatHeadings(paras)
    IN  [kind |-> "summary",
         sections |-> [j \in 1..Len(hs) |-> SectionEntry(paras, hs[j])]]

MaxSecParas == 3

TextB == <<"B">>

SecParas ==
    {Plain(TextX), Plain(TextA),
     HeadingPara("1", TextA), HeadingPara("1", TextB),
     HeadingPara("2", TextA), HeadingPara("2", <<" ", "B">>),
     HeadingPara("3", TextX)}

\* the heading_text arguments
SecQueries == {TextA, TextB, TextX, <<" ", "B">>}

\* the heading_level arguments of _section_paragraphs
SecLevels == 0..3

InitSections ==
    /\ paragraphs \in SeqsUpTo(SecParas, MaxSecParas)
    /\ pc = "sections"
    /\ idx = 0
    /\ issues = <<>>
    /\ result = NoResult
    /\ IdleTree /\ IdleWhitespace /\ IdleEnum /\ IdleSession

\* get_section_content, lines 150-180
SectionContentCall ==
    /\ pc = "sections"
    /\ \E heading_text \in SecQueries :
          result' = GetSectionContent(paragraphs, heading_text)
    /\ pc' = "done"
    /\ UNCHANGED <<fs, call, earlier>>
    /\ UNCHANGED <<paragraphs, idx, headings, nodes, root, stack, issues,
                   prev_blank, current_run, current_section, flush_log>>

\* get_all_sections_summary, lines 199-227
SummaryCall ==
    /\ pc = "sections"
    /\ result' = GetAllSectionsSummary(paragraphs)
    /\ pc' = "done"
    /\ UNCHANGED <<fs, call, earlier>>
    /\ UNCHANGED <<paragraphs, idx, headings, nodes, root, stack, issues,
                   prev_blank, current_run, current_section, flush_log>>

\* _section_paragraphs on a paragraph index and a level
SectionParagraphsCall ==
    /\ pc = "sections"
    /\ \E h \in 0..(Len(paragraphs) - 1) : \E L \in SecLevels :
          result' = [kind |-> "span", heading_idx |-> h, heading_level |-> L,
                     out |-> SectionParagraphs(paragraphs, h, L)]
    /\ pc' = "done"
    /\ UNCHANGED <<fs, call, earlier>>
    /\ UNCHANGED <<paragraphs, idx, headings, nodes, root, stack, issues,
                   prev_blank, current_run, current_section, flush_log>>

\* load_document_structure, lines 115-124, ahead of a section call on the
\* same document: the flat list and the forest stay with the caller
StructureCall ==
    /\ pc = "sections"
    /\ headings = <<>> /\ nodes = <<>> /\ root = <<>>
    /\ headings' = FlatHeadings(paragraphs)
    /\ LET built == BuildHeadingTree(headings')
       IN  nodes' = built.nodes /\ root' = built.root
    /\ UNCHANGED <<fs, call, earlier>>
    /\ UNCHANGED <<paragraphs, pc, idx, stack, issues, prev_blank,
                   current_run, current_section, flush_log, result>>

NextSections ==
    SectionContentCall \/ SummaryCall \/ SectionParagraphsCall \/ StructureCall

SpecSections == InitSections /\ [][NextSections]_vars

(***************************************************************************)
(* Properties of the section functions                                     *)
(***************************************************************************)
\* The index of the first paragraph after index h whose heading level is
\* present and at most L, the document length when there is none
SpanEnd(paras, h, L) ==
    LET stops == {k \in (h + 1)..(Len(paras) - 1) :
                     /\ IsHeading(paras[k + 1])
                     /\ DetectHeadingLevel(paras[k + 1]) <= L}
    IN  IF stops = {} THEN Len(paras)
        ELSE CHOOSE k \in stops : \A m \in stops : k <= m

\* The number of paragraphs between the heading at index h and the next
\* heading of the same or a shallower level
SpanLength(paras, h) ==
    SpanEnd(paras, h, DetectHeadingLevel(paras[h + 1])) - h - 1

\* The indices of the heading paragraphs, in order
HeadingIndices(paras) ==
    SelectIdx(Len(paras), {k \in 1..Len(paras) : IsHeading(paras[k])})

\* The heading at position j of the heading list is the first heading of
\* the document with its trimmed text
FirstWithItsText(paras, j) ==
    LET at == HeadingIndices(paras)
    IN  \A i \in 1..(j - 1) : Strip(paras[at[i]].text) # Strip(paras[at[j]].text)

\* The paragraph counts of heading number j agree: the count of the span, the
\* count in its summary entry, the count get_section_content returns for its
\* text
CountsAgree(paras, j, summary, section) ==
    LET at == HeadingIndices(paras)
    IN  /\ section.kind = "section"
        /\ section.paragraph_count = SpanLength(paras, at[j] - 1)
        /\ section.paragraph_count = summary.sections[j].paragraph_count
        /\ section.level = summary.sections[j].level

\* C12 (as amended): for every heading h that is the first heading of the
\* document with its trimmed text, get_section_content called with h's text
\* returns the number of paragraphs between h and the next heading of the
\* same or a shallower level, which is the paragraph_count of h's entry in
\* get_all_sections_summary.  Stated for the value either call returned.
C12_CountsAgreeForFirstHeading ==
    LET at == HeadingIndices(paragraphs)
    IN  /\ (pc = "done" /\ result.kind = "summary") =>
              \A j \in 1..Len(at) :
                  FirstWithItsText(paragraphs, j) =>
                      CountsAgree(paragraphs, j, result,
                          GetSectionContent(paragraphs, Strip(paragraphs[at[j]].text)))
        /\ (pc = "done" /\ result.kind = "section") =>
              \A j \in 1..Len(at) :
                  (/\ FirstWithItsText(paragraphs, j)
                   /\ Strip(paragraphs[at[j]].text) = result.heading)
                  => CountsAgree(paragraphs, j,
                          GetAllSectionsSummary(paragraphs), result)

\* a summary of two sections where the first spans its sub-heading
C12_Witness ==
    /\ pc = "done"
    /\ result.kind = "summary"
    /\ Len(result.sections) = 2
    /\ result.sections[1].paragraph_count = 2
    /\ result.sections[2].paragraph_count = 1
    /\ result.sections[1].level < result.sections[2].level

\* C12 as stated: for every heading h, get_section_content called with h's
\* text returns the paragraph count of h's span and of h's summary entry.
C12_AsStated ==
    LET at == HeadingIndices(paragraphs)
    IN  (pc = "done" /\ result.kind = "summary") =>
            \A j \in 1..Len(at) :
                CountsAgree(paragraphs, j, result,
                    GetSectionContent(paragraphs, Strip(paragraphs[at[j]].text)))

\* The indices of the heading paragraphs whose trimmed text is text
HeadingsNamed(paras, text) ==
    {k \in 0..(Len(paras) - 1) :
        IsHeading(paras[k + 1]) /\ Strip(paras[k + 1].text) = text}

\* C14: get_section_content returns "Heading not found: <text>" if and only
\* if no heading paragraph's trimmed text equals heading_text (a non-heading
\* paragraph with that text is no match); otherwise the value describes the
\* first heading in document order that has that text.
C14_NotFoundIffNoHeadingNamed ==
    /\ (pc = "done" /\ result.kind = "error") =>
          \E q \in SecQueries :
              /\ result = HeadingNotFound(q)
              /\ HeadingsNamed(paragraphs, q) = {}
    /\ (pc = "done" /\ result.kind = "section") =>
          LET named == HeadingsNamed(paragraphs, result.heading)
              first == CHOOSE k \in named : \A m \in named : k <= m
          IN  /\ named # {}
              /\ result.level = DetectHeadingLevel(paragraphs[first + 1])
              /\ result.paragraph_count = SpanLength(paragraphs, first)
              /\ result.content =
                    JoinWith(<<"\n">>,
                        [k \in 1..result.paragraph_count |->
                            paragraphs[first + 1 + k].text])

\* a body paragraph "A" comes first, then two headings "A" of levels 2 and
\* 1: the value returned is that of the level-2 heading
C14_Witness ==
    /\ pc = "done"
    /\ result.kind = "section"
    /\ result.heading = TextA
    /\ paragraphs = <<Plain(TextA), HeadingPara("2", TextA), HeadingPara("1", TextA)>>
    /\ result.level = 2
    /\ result.paragraph_count = 0

\* C19: _section_paragraphs(paragraphs, h, L) returns the paragraphs at the
\* indices h+1 .. n-1 in order, n being the index of the first paragraph
\* after h whose heading level is present and at most L, or the document
\* length; deeper sub-headings are in, h and n are out.
C19_SpanIsExclusiveRange ==
    (pc = "done" /\ result.kind = "span") =>
        result.out = SubSeq(paragraphs, result.heading_idx + 2,
                         SpanEnd(paragraphs, result.heading_idx, result.heading_level))

\* the span of a level-1 heading holds its level-2 sub-heading and stops
\* before the next level-1 heading
C19_Witness ==
    /\ pc = "done"
    /\ result.kind = "span"
    /\ result.heading_idx = 0
    /\ result.heading_level = 1
    /\ Len(paragraphs) = 3
    /\ DetectHeadingLevel(paragraphs[1]) = 1
    /\ DetectHeadingLevel(paragraphs[3]) = 1
    /\ Len(result.out) = 1
    /\ DetectHeadingLevel(result.out[1]) = 2

\* The caller holds the flat list and the forest of the document
StructureLoaded ==
    headings = FlatHeadings(paragraphs) /\ Len(nodes) = Len(headings)

\* The node of the first heading with this text
FirstNodeNamed(text) ==
    CHOOSE k \in 1..Len(nodes) :
        /\ nodes[k].text = text
        /\ \A m \in 1..(k - 1) : nodes[m].text # text

\* The texts of the children of node n, in order
ChildTexts(n) ==
    [j \in 1..Len(nodes[n].children) |-> nodes[nodes[n].children[j]].text]

\* C25 as stated: the subsections field of get_section_content is the list
\* of the texts of the children, in the heading tree, of the heading it
\* found (its direct sub-headings), in document order.
C25_AsStated ==
    (pc = "done" /\ result.kind = "section" /\ StructureLoaded) =>
        result.subsections = ChildTexts(FirstNodeNamed(result.heading))

\* The nodes below node n in the forest
RECURSIVE Descendants(_)
Descendants(n) ==
    UNION {{c} \cup Descendants(c) : c \in Elems(nodes[n].children)}

\* The node made for the heading at paragraph index i
NodeAt(i) == CHOOSE k \in 1..Len(nodes) : nodes[k].paragraph_index = i

\* The paragraph indices of the span _section_paragraphs gives the heading
\* at index g with its own level
OwnSpan(g) ==
    LET out == SectionParagraphs(paragraphs, g,
                                 DetectHeadingLevel(paragraphs[g + 1]))
    IN  (g + 1)..(g + Len(out))

\* C30: for a heading h and the span _section_paragraphs returns for it at
\* its own level, the headings inside the span are exactly the descendants
\* of h in the forest _build_heading_tree built for the same document; and
\* that span and the span of any other heading are nested or disjoint.
C30_SpanHeadingsAreDescendants ==
    (/\ pc = "done" /\ result.kind = "span" /\ StructureLoaded
     /\ IsHeading(paragraphs[result.heading_idx + 1])
     /\ result.heading_level
          = DetectHeadingLevel(paragraphs[result.heading_idx + 1]))
    => LET h == result.heading_idx
           span == (h + 1)..(h + Len(result.out))
       IN  /\ {i \in span : IsHeading(paragraphs[i + 1])}
                 = {nodes[d].paragraph_index : d \in Descendants(NodeAt(h))}
           /\ \A g \in 0..(Len(paragraphs) - 1) :
                 IsHeading(paragraphs[g + 1]) =>
                     \/ OwnSpan(g) \subseteq span
                     \/ span \subseteq OwnSpan(g)
                     \/ OwnSpan(g) \cap span = {}

\* the span of a level-1 heading holds a level-2 heading and, below that, a
\* level-3 heading: a child and a grandchild in the forest
C30_Witness ==
    /\ pc = "done" /\ result.kind = "span" /\ StructureLoaded
    /\ Len(paragraphs) = 3
    /\ result.heading_idx = 0
    /\ result.heading_level = 1
    /\ DetectHeadingLevel(paragraphs[1]) = 1
    /\ DetectHeadingLevel(paragraphs[2]) = 2
    /\ DetectHeadingLevel(paragraphs[3]) = 3
    /\ Len(result.out) = 2
    /\ Cardinality(Descendants(1)) = 2
    /\ Len(nodes[1].children) = 1

(***************************************************************************)
(* load_document_structure on paragraphs of any style name and any         *)
(* outline-level attribute                                                 *)
(***************************************************************************)
MaxClassifyParas == 1

\* style names: the built-in ones, and names near the "Heading N" shape
ClassifyStyles ==
    {StyleTitle, StyleNormal, <<>>,
     StyleHeading("1"), StyleHeading("2"), StyleHeading("9"),
     <<"H", "e", "a", "d", "i", "n", "g", " ", "1", "0">>,
     <<"H", "e", "a", "d", "i", "n", "g">>,
     <<"H", "e", "a", "d", "i", "n", "g", "1">>,
     <<"H", "e", "a", "d", "i", "n", "g", " ", "1", " ", "2">>,
     <<"H", "e", "a", "d", "i", "n", "g", " ", "x">>,
     <<"H", "e", "a", "d", "i", "n", "g", "\t", "3">>,
     <<"H", "e", "a", "d", "i", "n", "g", "s", " ", "3">>,
     <<"t", "i", "t", "l", "e">>}

\* w:outlineLvl/@w:val: absent, the values 0..9 of the schema, other strings
ClassifyOutlines == {None, <<"0">>, <<"2">>, <<"9">>, <<"x">>, <<>>}

ClassifyParas ==
    {Paragraph(st, ol, FALSE, <<T(TextA)>>, <<>>) :
        st \in ClassifyStyles, ol \in ClassifyOutlines}

InitClassify ==
    /\ paragraphs \in SeqsUpTo(ClassifyParas, MaxClassifyParas)
    /\ pc = "start"
    /\ idx = 0
    /\ issues = <<>>
    /\ result = NoResult
    /\ IdleTree /\ IdleWhitespace /\ IdleEnum /\ IdleSession

SpecClassify == InitClassify /\ [][Next]_vars

(***************************************************************************)
(* Properties of the heading classifier                                    *)
(***************************************************************************)
\* The level the returned heading list gives paragraph index i, NoLevel when
\* the list has no entry for it
ReturnedLevel(i) ==
    LET at == {k \in 1..Len(result.headings) : result.headings[k].paragraph_index = i}
    IN  IF at = {} THEN NoLevel ELSE result.headings[CHOOSE k \in at : TRUE].level

\* C17 as stated: for every paragraph the heading level is absent or an
\* integer in the range 0 to 9.
C17_AsStated ==
    pc = "done" =>
        \A k \in 1..Len(paragraphs) : ReturnedLevel(k - 1) \in {NoLevel} \cup 0..9

\* The style name is "Heading", whitespace, digits
StrictHeadingForm(style) ==
    LET parts == SplitWs(style)
    IN  /\ StartsWith(style, StyleHeadingWord)
        /\ Len(parts) = 2
        /\ parts[1] = StyleHeadingWord
        /\ IsDigitStr(parts[2])

\* The style name starts with "Heading" and is two whitespace-separated
\* tokens of which the second is made of digits
LooseHeadingForm(style) ==
    LET parts == SplitWs(style)
    IN  /\ StartsWith(style, StyleHeadingWord)
        /\ Len(parts) = 2
        /\ IsDigitStr(parts[2])

\* The level by precedence: Title, then the heading form, then the outline
\* level plus one, then none
LevelByPrecedence(p, HasForm(_)) ==
    IF p.style = StyleTitle THEN 0
    ELSE IF HasForm(p.style) THEN ToInt(SplitWs(p.style)[2])
    ELSE IF p.outlineLvl # None /\ IsDigitStr(p.outlineLvl)
         THEN ToInt(p.outlineLvl) + 1
    ELSE NoLevel

DocPath == <<"c", ".", "d", "o", "c", "x">>
OutPath == <<"o", "u", "t">>
Paths == {DocPath, OutPath}

\* What a path holds.  A .docx package is its paragraphs, whether it has a
\* word/comments.xml part, and the paragraph indices that carry comment
\* markers; a markdown file is the report written into it.
Absent == [kind |-> "absent"]
Directory == [kind |-> "directory"]
EmptyFile == [kind |-> "empty"]
DocxFile(paras, comments_part, commented) ==
    [kind |-> "docx", paragraphs |-> paras,
     comments_part |-> comments_part, commented |-> commented]
MarkdownFile(report) == [kind |-> "markdown", report |-> report]

\* os.path.exists
PathExists(files, path) == files[path].kind # "absent"

\* os.path.isfile
IsFile(files, path) == files[path].kind \notin {"absent", "directory"}

\* {"error": f"File not found: {filepath}"}
FileNotFound(filepath) ==
    [kind |-> "error", error |-> ErrorText("File not found: ", filepath)]

\* an exception that leaves the entry point
Raised(exception) == [kind |-> "raised", exception |-> exception]

\* The file check and Document(filepath) that open every analysis entry
\* point: the value that ends the call at once, NoResult to go on
Preamble(files, filepath) ==
    IF ~IsFile(files, filepath) THEN FileNotFound(filepath)
    ELSE IF files[filepath].kind # "docx" THEN Raised("PackageNotFoundError")
    ELSE NoResult

NoCall == [fn |-> "none"]

AnalysisFns ==
    {"load_document_structure", "get_section_content",
     "get_all_sections_summary", "check_whitespace", "check_enumerations",
     "extract_and_validate_references"}

\* The call being served: the entry point, its arguments (None where it has
\* no such argument), and the file system it found
MakeCall(fn, filepath, heading_text, findings_json, output_path, format) ==
    [fn |-> fn, filepath |-> filepath, heading_text |-> heading_text,
     findings_json |-> findings_json, output_path |-> output_path,
     format |-> format, before |-> fs]

AnalysisCall(fn, filepath, heading_text) ==
    MakeCall(fn, filepath, heading_text, None, None, None)

\* a prev_blank that outlives the call
StalePrevBlank == prev_blank

\* check_whitespace, line 48: prev_blank = False
InitialPrevBlank == FALSE

(***************************************************************************)
(* report.py                                                               *)
(***************************************************************************)
\* dict.get(key, default)
Get(rec, key, default) == IF key \in DOMAIN rec THEN rec[key] ELSE default

\* A findings_json argument: text that is no JSON, or the JSON text of an
\* object
NotJson == [malformed |-> TRUE]
JsonOf(value) == [malformed |-> FALSE, value |-> value]

\* json.loads on a findings_json that is JSON
JsonLoads(text) == text.value

InvalidFindings ==
    [kind |-> "error", error |-> <<"Invalid findings_json: ">>]

NoIssues == [issue_count |-> 0, issues |-> <<>>]

\* _generate_markdown: the counts of the summary table (the date line and
\* the listings are left out)
GenerateMarkdown(findings) ==
    LET ws_count == Get(Get(findings, "whitespace", NoIssues), "issue_count", 0)
        en_count == Get(Get(findings, "enumerations", NoIssues), "issue_count", 0)
        refs == Get(findings, "references", [invalid |-> <<>>])
        inv_count == Len(Get(refs, "invalid", <<>>))
        fv_count == Len(Get(refs, "field_code_violations", <<>>))
    IN  [filepath |-> findings.filepath,
         ws_count |-> ws_count, en_count |-> en_count,
         inv_count |-> inv_count, fv_count |-> fv_count,
         total |-> ws_count + en_count + inv_count + fv_count]

\* save_results, lines 294-313
Annotations(findings) ==
    LET ws == Get(Get(findings, "whitespace", NoIssues), "issues", <<>>)
        en == Get(Get(findings, "enumerations", NoIssues), "issues", <<>>)
        inv == Get(Get(findings, "references", [invalid |-> <<>>]), "invalid", <<>>)
    IN  [k \in 1..Len(ws) |->
            [paragraph_index |-> ws[k].paragraph_index,
             comment |-> ws[k].detail, category |-> "whitespace"]]
        \o [k \in 1..Len(en) |->
            [paragraph_index |-> en[k].paragraph_index,
             comment |-> en[k].detail, category |-> "enumeration"]]
        \o [k \in 1..Len(inv) |->
            [paragraph_index |-> inv[k].paragraph_index,
             comment |-> inv[k].text, category |-> "reference"]]

\* _generate_annotated_docx: the file system it leaves and the exception it
\* raises ("none": it returns)
GenerateAnnotatedDocx(files, filepath, annotations, output_path) ==
    LET src == files[filepath]
        emptied == [files EXCEPT ![output_path] = EmptyFile]
        by_para == {annotations[k].paragraph_index : k \in 1..Len(annotations)}
                       \cap 0..(Len(src.paragraphs) - 1)
    IN  IF src.kind # "docx"
        THEN [files |-> files, raised |-> "BadZipFile"]
        ELSE IF annotations = <<>>
        THEN IF output_path = filepath
             THEN [files |-> emptied, raised |-> "SameFileError"]
             ELSE [files |-> [emptied EXCEPT ![output_path] = src],
                   raised |-> "none"]
        ELSE [files |-> [files EXCEPT ![output_path] =
                            DocxFile(src.paragraphs, TRUE,
                                     src.commented \cup by_para)],
              raised |-> "none"]

\* Path(output_path).stat().st_size
SizeOf(file) == [size_of |-> file]

\* save_results, lines 322-336
Saved(files, findings, output_path, format) ==
    [kind |-> "saved",
     output_path |-> output_path,
     format |-> format,
     written_bytes |-> SizeOf(files[output_path]),
     summary |->
         [whitespace_issues |->
              Get(Get(findings, "whitespace", NoIssues), "issue_count", 0),
          enumeration_issues |->
              Get(Get(findings, "enumerations", NoIssues), "issue_count", 0),
          invalid_refs |->
              Len(Get(Get(findings, "references", [invalid |-> <<>>]), "invalid", <<>>)),
          field_code_violations |->
              Len(Get(Get(findings, "references", [invalid |-> <<>>]),
                      "field_code_violations", <<>>))]]

\* save_results: the file system it leaves and the value it returns
SaveResults(files, filepath, findings_json, output_path, format) ==
    LET findings == [key \in DOMAIN JsonLoads(findings_json) \cup {"filepath"} |->
                        IF key = "filepath" THEN filepath
                        ELSE JsonLoads(findings_json)[key]]
        docx == GenerateAnnotatedDocx(files, filepath, Annotations(findings),
                                      output_path)
        written == [files EXCEPT ![output_path] =
                        MarkdownFile(GenerateMarkdown(findings))]
    IN  IF ~IsFile(files, filepath)
        THEN [files |-> files, out |-> FileNotFound(filepath)]
        ELSE IF findings_json.malformed
        THEN [files |-> files, out |-> InvalidFindings]
        ELSE IF format = "docx"
        THEN IF docx.raised # "none"
             THEN [files |-> docx.files, out |-> Raised(docx.raised)]
             ELSE [files |-> docx.files,
                   out |-> Saved(docx.files, findings, output_path, format)]
        ELSE [files |-> written,
              out |-> Saved(written, findings, output_path, format)]

(***************************************************************************)
(* The session: Init, one action per entry point called, the loop steps    *)
(* of the entry points that scan, and the return to the caller             *)
(***************************************************************************)
\* three list items with mixed delimiters
DocA == BadRunDoc

\* a blank paragraph, an article heading, a citation of a missing article,
\* a blank paragraph
DocB == <<Plain(<<>>), HeadingArticle(<<"6">>), Plain(TextArticle12), Plain(<<>>)>>

ApiDocs == {DocA, DocB}

\* heading_text arguments: the heading of DocB, a text no heading has
ApiQueries == {Strip(DocB[2].text), TextX}

\* filepath arguments of the analysis entry points
AnalysisPaths == {DocPath}

\* findings_json arguments
OneIssue ==
    [issue_count |-> 1,
     issues |-> <<[type |-> "double_space", paragraph_index |-> 0,
                   section |-> None, text |-> FooBar2,
                   detail |-> [position |-> 3, context |-> FooBar2]]>>]

ApiFindings ==
    {NotJson, JsonOf([note |-> <<>>]), JsonOf([whitespace |-> OneIssue])}

ApiFormats == {"markdown", "docx"}

InitApi ==
    /\ fs \in {[path \in Paths |-> IF path = DocPath THEN file ELSE Absent] :
                  file \in {Absent, Directory}
                           \cup {DocxFile(d, FALSE, {}) : d \in ApiDocs}}
    /\ call = NoCall
    /\ earlier = NoCall
    /\ pc = "idle"
    /\ paragraphs = <<>>
    /\ idx = 0
    /\ issues = <<>>
    /\ result = NoResult
    /\ IdleTree /\ IdleWhitespace /\ IdleEnum

\* the entry point returns at once with value out
ReturnsAtOnce(out) ==
    /\ result' = out
    /\ pc' = "done"
    /\ UNCHANGED <<paragraphs, idx, headings, nodes, root, stack, issues,
                   prev_blank, current_run, current_section, flush_log>>

\* load_document_structure, lines 112-116
CallLoadDocumentStructure ==
    /\ pc = "idle"
    /\ \E filepath \in AnalysisPaths :
          /\ call' = AnalysisCall("load_document_structure", filepath, None)
          /\ IF Preamble(fs, filepath) # NoResult
             THEN ReturnsAtOnce(Preamble(fs, filepath))
             ELSE /\ paragraphs' = fs[filepath].paragraphs
                  /\ headings' = <<>>
                  /\ nodes' = <<>> /\ root' = <<>> /\ stack' = <<>>
                  /\ idx' = 0
                  /\ result' = NoResult
                  /\ pc' = "start"
                  /\ UNCHANGED <<issues, prev_blank, current_run,
                                 current_section, flush_log>>
    /\ UNCHANGED <<fs, earlier>>

\* get_section_content
CallGetSectionContent ==
    /\ pc = "idle"
    /\ \E filepath \in AnalysisPaths : \E heading_text \in ApiQueries :
          /\ call' = AnalysisCall("get_section_content", filepath, heading_text)
          /\ IF Preamble(fs, filepath) # NoResult
             THEN ReturnsAtOnce(Preamble(fs, filepath))
             ELSE /\ paragraphs' = fs[filepath].paragraphs
                  /\ result' = GetSectionContent(fs[filepath].paragraphs, heading_text)
                  /\ pc' = "done"
                  /\ UNCHANGED <<idx, headings, nodes, root, stack, issues,
                                 prev_blank, current_run, current_section,
                                 flush_log>>
    /\ UNCHANGED <<fs, earlier>>

\* get_all_sections_summary
CallGetAllSectionsSummary ==
    /\ pc = "idle"
    /\ \E filepath \in AnalysisPaths :
          /\ call' = AnalysisCall("get_all_sections_summary", filepath, None)
          /\ IF Preamble(fs, filepath) # NoResult
             THEN ReturnsAtOnce(Preamble(fs, filepath))
             ELSE /\ paragraphs' = fs[filepath].paragraphs
                  /\ result' = GetAllSectionsSummary(fs[filepath].paragraphs)
                  /\ pc' = "done"
                  /\ UNCHANGED <<idx, headings, nodes, root, stack, issues,
                                 prev_blank, current_run, current_section,
                                 flush_log>>
    /\ UNCHANGED <<fs, earlier>>

\* check_whitespace, lines 41-48
CallCheckWhitespace ==
    /\ pc = "idle"
    /\ \E filepath \in AnalysisPaths :
          /\ call' = AnalysisCall("check_whitespace", filepath, None)
          /\ IF Preamble(fs, filepath) # NoResult
             THEN ReturnsAtOnce(Preamble(fs, filepath))
             ELSE /\ paragraphs' = fs[filepath].paragraphs
                  /\ issues' = <<>>
                  /\ prev_blank' = InitialPrevBlank
                  /\ idx' = 0
                  /\ result' = NoResult
                  /\ pc' = "ws"
                  /\ UNCHANGED <<headings, nodes, root, stack, current_run,
                                 current_section, flush_log>>
    /\ UNCHANGED <<fs, earlier>>

\* check_enumerations, lines 241-249
CallCheckEnumerations ==
    /\ pc = "idle"
    /\ \E filepath \in AnalysisPaths :
          /\ call' = AnalysisCall("check_enumerations", filepath, None)
          /\ IF Preamble(fs, filepath) # NoResult
             THEN ReturnsAtOnce(Preamble(fs, filepath))
             ELSE /\ paragraphs' = fs[filepath].paragraphs
                  /\ issues' = <<>>
                  /\ current_run' = <<>>
                  /\ current_section' = None
                  /\ flush_log' = <<>>
                  /\ idx' = 0
                  /\ result' = NoResult
                  /\ pc' = "enum"
                  /\ UNCHANGED <<headings, nodes, root, stack, prev_blank>>
    /\ UNCHANGED <<fs, earlier>>

\* extract_and_validate_references
CallExtractAndValidateReferences ==
    /\ pc = "idle"
    /\ \E filepath \in AnalysisPaths :
          /\ call' = AnalysisCall("extract_and_validate_references", filepath, None)
          /\ IF Preamble(fs, filepath) # NoResult
             THEN ReturnsAtOnce(Preamble(fs, filepath))
             ELSE /\ paragraphs' = fs[filepath].paragraphs
                  /\ result' = ExtractAndValidateReferences(fs[filepath].paragraphs)
                  /\ pc' = "done"
                  /\ UNCHANGED <<idx, headings, nodes, root, stack, issues,
                                 prev_blank, current_run, current_section,
                                 flush_log>>
    /\ UNCHANGED <<fs, earlier>>

\* save_results
CallSaveResults ==
    /\ pc = "idle"
    /\ \E filepath \in {DocPath} : \E findings_json \in ApiFindings :
       \E output_path \in Paths : \E format \in ApiFormats :
          LET done == SaveResults(fs, filepath, findings_json, output_path, format)
          IN  /\ call' = MakeCall("save_results", filepath, None,
                                  findings_json, output_path, format)
              /\ fs' = done.files
              /\ result' = done.out
    /\ pc' = "done"
    /\ UNCHANGED <<paragraphs, idx, headings, nodes, root, stack, issues,
                   prev_blank, current_run, current_section, flush_log,
                   earlier>>

\* The call as one to compare later calls with: the entry point, its
\* arguments, the content of the file it read, the value it returned, and
\* whether another entry point has returned since
Kept ==
    [fn |-> call.fn, filepath |-> call.filepath,
     heading_text |-> call.heading_text,
     content |-> call.before[call.filepath],
     out |-> result, between |-> FALSE]

\* The value reaches the caller, who may call again.  The frame of the call
\* is gone: its locals are cleared, except that prev_blank keeps its last
\* value until a call sets it.
Return ==
    /\ pc = "done"
    /\ call # NoCall
    /\ pc' = "idle"
    /\ call' = NoCall
    /\ IF earlier = NoCall
       THEN \/ earlier' = earlier
            \/ call.fn \in AnalysisFns /\ earlier' = Kept
       ELSE earlier' = [earlier EXCEPT !.between = @ \/ call.fn # earlier.fn]
    /\ paragraphs' = <<>>
    /\ idx' = 0
    /\ issues' = <<>>
    /\ result' = NoResult
    /\ headings' = <<>> /\ nodes' = <<>> /\ root' = <<>> /\ stack' = <<>>
    /\ current_run' = <<>> /\ current_section' = None /\ flush_log' = <<>>
    /\ UNCHANGED <<prev_blank, fs>>

NextApi ==
    \/ CallLoadDocumentStructure \/ LoadStart \/ BuildStep \/ LoadReturn
    \/ CallGetSectionContent
    \/ CallGetAllSectionsSummary
    \/ CallCheckWhitespace \/ WsStep \/ WsReturn
    \/ CallCheckEnumerations \/ EnumStep \/ EnumReturn
    \/ CallExtractAndValidateReferences
    \/ CallSaveResults
    \/ Return

SpecApi == InitApi /\ [][NextApi]_vars

(***************************************************************************)
(* Properties of the entry points                                          *)
(***************************************************************************)
\* The path names no existing file: nothing is there, or a directory is
NotAnExistingFile(files, path) == files[path].kind \in {"absent", "directory"}

\* C13: every entry point called with a path that is not an existing file
\* returns {error: "File not found: <path>"} without raising; the check
\* comes first, so the call is over at once, the value is the error value
\* alone, and nothing is written.
C13_MissingFileIsErrorValue ==
    (call # NoCall /\ NotAnExistingFile(call.before, call.filepath)) =>
        /\ pc = "done"
        /\ result = FileNotFound(call.filepath)
        /\ fs = call.before

\* save_results in format docx on a path that is a directory: the error
\* value, and no output file
C13_Witness ==
    /\ pc = "done"
    /\ call.fn = "save_results"
    /\ call.format = "docx"
    /\ call.output_path = OutPath
    /\ call.before[DocPath] = Directory
    /\ result = FileNotFound(DocPath)
    /\ fs[OutPath] = Absent

\* C15: an analysis entry point is a function of the document alone: it
\* leaves the file system as it found it, and it returns the value that an
\* earlier call of the same entry point with the same arguments returned for
\* the same file content, whatever was called since.
C15_AnalysisIsFunctionOfDocument ==
    /\ call.fn \in AnalysisFns => fs = call.before
    /\ (/\ pc = "done"
        /\ call.fn \in AnalysisFns
        /\ earlier.fn = call.fn
        /\ earlier.filepath = call.filepath
        /\ earlier.heading_text = call.heading_text
        /\ earlier.content = fs[call.filepath])
       => result = earlier.out

\* check_enumerations returns the same one issue as an earlier call did,
\* after another entry point has returned in between
C15_Witness ==
    /\ pc = "done"
    /\ call.fn = "check_enumerations"
    /\ earlier.fn = "check_enumerations"
    /\ earlier.content = fs[call.filepath]
    /\ earlier.between
    /\ result.kind = "enumerations"
    /\ result.issue_count = 1
    /\ result = earlier.out

\* C16 as stated: save_results never modifies the original document: after
\* every call the file at filepath has the content it had before the call.
C16_AsStated ==
    (pc = "done" /\ call.fn = "save_results") =>
        fs[call.filepath] = call.before[call.filepath]

====
